---- MODULE Spec2Model ----
(***************************************************************************)
(* Incrypt Arena: the relational store (schema, constraints, generated     *)
(* columns, the leaderboard view), the useLeaderboard hook, the            *)
(* useAdvancedScoring calculators and the data-entry handlers that write   *)
(* attendance, activity participations and blogs.                          *)
(*                                                                         *)
(* Every handler is an async function: each `await supabase...` is one     *)
(* atomic store statement, and other sessions may run between two awaits.  *)
(***************************************************************************)
EXTENDS Integers, Sequences, FiniteSets, TLC

VARIABLES
    db,          \* the store: one field per table of the schema
    configured,  \* isSupabaseConfigured()
    entries,     \* useLeaderboard: entries
    isLoading,   \* useLeaderboard: isLoading
    error,       \* useLeaderboard: error (a message or "null")
    inflight,    \* useLeaderboard: fetchLeaderboard calls awaiting the store
    hookPc,      \* useLeaderboard: "mount" until the mount effect has run
    results,     \* the entry lists of the last two fetches the store answered
    selected,    \* <<rows>> once SELECT * FROM leaderboard has been answered
    scoring,     \* useAdvancedScoring: position, isLoading, error, locals
    streaks,     \* what calculateStreaks returned
    sess,        \* the data-entry sessions: handler, position, locals
    champ,       \* calculateAttendanceChampion: position, locals, return value
    clock,       \* new Date() and the browser's time zone
    auth,        \* useAuth: user, playerData, isLoading, the auth session, pending calls
    form         \* ActivityForm: its state and the submission under way

vars == <<db, configured, entries, isLoading, error, inflight, hookPc, results, selected,
          scoring, streaks, sess, champ, clock, auth, form>>

(***************************************************************************)
(* Bounds of the model.                                                    *)
(***************************************************************************)
NumPlayers == 2
MaxRows == 2
MaxInflight == 1

PlayerIds == 1..NumPlayers
CycleIds == {1, 2}
NoPlayer == 0

(***************************************************************************)
(* Generic helpers.                                                        *)
(***************************************************************************)
RECURSIVE Sum(_, _)
Sum(f, S) ==
    IF S = {} THEN 0
    ELSE LET x == CHOOSE y \in S : TRUE
         IN f[x] + Sum(f, S \ {x})

(***************************************************************************)
(* The store.  db has one field per table; a row is a record of the        *)
(* columns the application reads or the constraints mention.               *)
(*   players: set of ids, far_away: the ids whose far_away is true         *)
(*   active_cycle: the id of the cycle with is_active, 0 when none         *)
(***************************************************************************)
NoCycle == 0

EmptyDb ==
    [players |-> {}, far_away |-> {}, active_cycle |-> NoCycle,
     attendance |-> {}, activities |-> {}, activity_participations |-> {},
     courses |-> {}, blogs |-> {}, books |-> {}, ideas |-> {},
     top_performer_awards |-> {}, presentations |-> {}, penalties |-> {}]

CoursePointsNoThreshold(total_hours, completion_percent) ==
    (total_hours * completion_percent * 4) \div 100

\* courses.points GENERATED ALWAYS AS (...) STORED
CoursePoints(total_hours, completion_percent) ==
    IF completion_percent >= 60
    THEN (total_hours * completion_percent * 4) \div 100
    ELSE 0

\* books.points GENERATED ALWAYS AS (FLOOR(pages_read / 10)) STORED
BookPoints(pages_read) == pages_read \div 10

NoConstraint(rows) == TRUE

\* UNIQUE(player_id, check_in_date)
AttendanceUnique(rows) ==
    \A a, b \in rows :
        (a.player_id = b.player_id /\ a.check_in_date = b.check_in_date) => a = b

\* UNIQUE(activity_id, player_id)
ParticipationUnique(rows) ==
    \A a, b \in rows :
        (a.activity_id = b.activity_id /\ a.player_id = b.player_id) => a = b

\* url TEXT NOT NULL UNIQUE
BlogUrlUnique(rows) ==
    \A a, b \in rows : a.url = b.url => a = b

(***************************************************************************)
(* The leaderboard view: the player_points CTE, then total and RANK().     *)
(***************************************************************************)
RowsOf(tbl, p) == {r \in tbl : r.player_id = p}

PointsOf(rows) == Sum([r \in rows |-> r.points], rows)

\* the attendance sum without the far_away multiplier
AttendanceSubtotalNoRemote(d, p) ==
    LET rows == RowsOf(d.attendance, p)
    IN Sum([r \in rows |-> r.points + (IF r.is_early_bird THEN 1 ELSE 0)], rows)

AttendanceSubtotal(d, p) ==
    LET rows == RowsOf(d.attendance, p)
    IN Sum([r \in rows |->
              (r.points + (IF r.is_early_bird THEN 1 ELSE 0))
              * (IF p \in d.far_away THEN 2 ELSE 1)], rows)

ActivitySubtotal(d, p) == PointsOf(RowsOf(d.activity_participations, p))

\* the course sum over unverified rows too
CourseSubtotalUnverifiedToo(d, p) ==
    LET rows == RowsOf(d.courses, p)
    IN Sum([r \in rows |-> CoursePoints(r.total_hours, r.completion_percent)], rows)

CourseSubtotal(d, p) ==
    LET rows == {r \in RowsOf(d.courses, p) : r.verified}
    IN Sum([r \in rows |-> CoursePoints(r.total_hours, r.completion_percent)], rows)

BlogSubtotal(d, p) == PointsOf(RowsOf(d.blogs, p))

PresentationSubtotal(d, p) == PointsOf(RowsOf(d.presentations, p))

IdeaSubtotal(d, p) == PointsOf({r \in RowsOf(d.ideas, p) : r.verified})

BookSubtotal(d, p) ==
    LET rows == {r \in RowsOf(d.books, p) : r.verified}
    IN Sum([r \in rows |-> BookPoints(r.pages_read)], rows)

TopPerformerSubtotal(d, p) == PointsOf(RowsOf(d.top_performer_awards, p))

PenaltySubtotal(d, p) == PointsOf(RowsOf(d.penalties, p))

PlayerPoints(d, p) ==
    [player_id |-> p,
     attendance_points |-> AttendanceSubtotal(d, p),
     activity_points |-> ActivitySubtotal(d, p),
     course_points |-> CourseSubtotal(d, p),
     blog_points |-> BlogSubtotal(d, p),
     presentation_points |-> PresentationSubtotal(d, p),
     idea_points |-> IdeaSubtotal(d, p),
     book_points |-> BookSubtotal(d, p),
     top_performer_points |-> TopPerformerSubtotal(d, p),
     penalty_points |-> PenaltySubtotal(d, p)]

\* the total with the penalty subtracted instead of added
ViewTotalPenaltySubtracted(pp) ==
    pp.attendance_points + pp.activity_points + pp.course_points + pp.blog_points
    + pp.book_points + pp.presentation_points + pp.idea_points
    + pp.top_performer_points - pp.penalty_points

ViewTotal(pp) ==
    pp.attendance_points + pp.activity_points + pp.course_points + pp.blog_points
    + pp.book_points + pp.presentation_points + pp.idea_points
    + pp.top_performer_points + pp.penalty_points

\* RANK() OVER (ORDER BY total DESC): 1 + the number of rows with a greater total
ViewRank(d, p) ==
    1 + Cardinality({q \in d.players :
                        ViewTotal(PlayerPoints(d, q)) > ViewTotal(PlayerPoints(d, p))})

LeaderboardView(d) ==
    {PlayerPoints(d, p) @@ [total_points |-> ViewTotal(PlayerPoints(d, p)),
                            rank |-> ViewRank(d, p)] : p \in d.players}

\* ORDER BY total_points DESC: any order of the rows with no greater total
\* before a smaller one; rows of equal total come in an order SQL leaves open.
\* the query without its ORDER BY
Unordered(s) == TRUE

OrderedByTotalDesc(s) ==
    \A i \in 1..(Len(s) - 1) : s[i].total_points >= s[i + 1].total_points

ViewOrders(d) ==
    LET V == LeaderboardView(d)
        n == Cardinality(V)
    IN {s \in [1..n -> V] :
          /\ \A i, j \in 1..n : i # j => s[i] # s[j]
          /\ OrderedByTotalDesc(s)}

(***************************************************************************)
(* useLeaderboard.                                                         *)
(***************************************************************************)
MockEntry(id, total, rk, att, act, course, blog, pres, idea, pen, last) ==
    [player_id |-> id, total_points |-> total, rank |-> rk,
     attendance_points |-> att, activity_points |-> act, course_points |-> course,
     blog_points |-> blog, book_points |-> 0, top_performer_points |-> 0,
     presentation_points |-> pres, idea_points |-> idea, penalty_points |-> pen,
     is_last_place |-> last]

MOCK_LEADERBOARD ==
    << MockEntry(1, 145, 1, 50, 40, 30, 20, 10, 5, -10, FALSE),
       MockEntry(2, 120, 2, 40, 35, 25, 15, 10, 0, -5, FALSE),
       MockEntry(3, 95, 3, 35, 30, 20, 10, 5, 0, -5, FALSE),
       MockEntry(4, 80, 4, 30, 25, 15, 10, 5, 0, -5, FALSE),
       MockEntry(5, 65, 5, 25, 20, 15, 5, 5, 0, -5, FALSE),
       MockEntry(6, 55, 6, 20, 20, 10, 5, 5, 0, -5, FALSE),
       MockEntry(7, 40, 7, 15, 15, 10, 0, 5, 0, -5, FALSE),
       MockEntry(8, 25, 8, 10, 10, 5, 0, 5, 0, -5, TRUE) >>

\* (data || []).map((entry, index, arr) => ({...entry, rank, is_last_place}))
EntryRankZeroBased(index) == index

EntryRank(index) == index + 1

IsLastPlaceNoGuard(index, length) == index = length - 1

IsLastPlace(index, length) == index = length - 1 /\ length > 1

ProcessEntries(data) ==
    [i \in 1..Len(data) |->
        [rank |-> EntryRank(i - 1),
         is_last_place |-> IsLastPlace(i - 1, Len(data))] @@ data[i]]

Remember(res, e) ==
    IF Len(res) < 2 THEN Append(res, e) ELSE <<res[2], e>>

\* the body of fetchLeaderboard up to its await
FetchBegin ==
    /\ error' = "null"
    /\ IF ~configured
       THEN /\ entries' = MOCK_LEADERBOARD
            /\ isLoading' = FALSE
            /\ inflight' = inflight
       ELSE /\ isLoading' = TRUE
            /\ inflight' = inflight + 1
            /\ entries' = entries
    /\ UNCHANGED <<db, configured, results, selected, scoring, streaks, sess, champ,
                   clock, auth, form>>

\* useEffect(() => { fetchLeaderboard(); }, [fetchLeaderboard])
MountEffect ==
    /\ hookPc = "mount"
    /\ hookPc' = "ready"
    /\ FetchBegin

\* refetch: fetchLeaderboard called again by the page
Refetch ==
    /\ hookPc = "ready"
    /\ inflight < MaxInflight
    /\ hookPc' = hookPc
    /\ FetchBegin

\* the store answers with the rows of the view
FetchSettleOk ==
    /\ inflight > 0
    /\ \E data \in ViewOrders(db) :
          /\ entries' = ProcessEntries(data)
          /\ results' = Remember(results, ProcessEntries(data))
    /\ isLoading' = FALSE
    /\ inflight' = inflight - 1
    /\ UNCHANGED <<db, configured, error, hookPc, selected, scoring, streaks, sess,
                   champ, clock, auth, form>>

\* the catch block without the finally block
FetchSettleErrNoFinally ==
    /\ inflight > 0
    /\ error' = "Failed to fetch leaderboard"
    /\ entries' = MOCK_LEADERBOARD
    /\ inflight' = inflight - 1
    /\ UNCHANGED <<db, configured, isLoading, hookPc, results, selected,
          scoring, streaks, sess, champ, clock, auth, form>>

\* the store answers with an error: catch, then finally
FetchSettleErr ==
    /\ inflight > 0
    /\ error' = "Failed to fetch leaderboard"
    /\ entries' = MOCK_LEADERBOARD
    /\ isLoading' = FALSE
    /\ inflight' = inflight - 1
    /\ UNCHANGED <<db, configured, hookPc, results, selected,
          scoring, streaks, sess, champ, clock, auth, form>>

(***************************************************************************)
(* The stores the view and the hook are run over: at most MaxRows rows in  *)
(* all, each a row the schema admits.  Cycle 2 is the active cycle, cycle  *)
(* 1 an earlier one; a row's kind is its (cycle, flag) pair.               *)
(***************************************************************************)
ActiveCycleId == 2

RemoteCandidates == {1}

CycleDay(c) == 7 * (c - 1)

FlagKinds == {<<2, TRUE>>, <<2, FALSE>>, <<1, TRUE>>}

Tagged(name, rows) == [tbl : {name}, row : rows]

ViewRows(P) ==
    Tagged("attendance",
           {[player_id |-> p, cycle_id |-> k[1], check_in_date |-> CycleDay(k[1]),
             is_early_bird |-> k[2], points |-> 1] : p \in P, k \in FlagKinds})
    \cup
    Tagged("activity_participations",
           {[player_id |-> p, activity_id |-> k[1], is_top_performer |-> ~k[2],
             double_points_used |-> ~k[2], points |-> IF k[2] THEN 10 ELSE 60]
            : p \in P, k \in FlagKinds})
    \cup
    Tagged("courses",
           {[player_id |-> p, cycle_id |-> k[1], total_hours |-> 2,
             completion_percent |-> 100, verified |-> k[2]] : p \in P, k \in FlagKinds})
    \cup
    Tagged("blogs",
           {[player_id |-> p, cycle_id |-> k[1], url |-> 10 * p + k[1],
             is_first |-> ~k[2], points |-> IF k[2] THEN 20 ELSE 30]
            : p \in P, k \in FlagKinds})
    \cup
    Tagged("books",
           {[player_id |-> p, cycle_id |-> k[1], pages_read |-> 25, verified |-> k[2]]
            : p \in P, k \in FlagKinds})
    \cup
    Tagged("ideas",
           {[player_id |-> p, cycle_id |-> k[1], points |-> 5, verified |-> k[2]]
            : p \in P, k \in FlagKinds})
    \cup
    Tagged("presentations", [player_id : P, cycle_id : CycleIds, points : {30}])
    \cup
    Tagged("top_performer_awards", [player_id : P, cycle_id : CycleIds, points : {5}])
    \cup
    Tagged("penalties", [player_id : P, cycle_id : CycleIds, points : {-1}])

\* the rows the hook is run over: enough to give players equal and different totals
LbRows(P) ==
    Tagged("attendance",
           {[player_id |-> p, cycle_id |-> ActiveCycleId,
             check_in_date |-> CycleDay(ActiveCycleId),
             is_early_bird |-> f, points |-> 1] : p \in P, f \in BOOLEAN})
    \cup
    Tagged("top_performer_awards", [player_id : P, cycle_id : {ActiveCycleId}, points : {5}])
    \cup
    Tagged("penalties", [player_id : P, cycle_id : {ActiveCycleId}, points : {-1}])

PointTables ==
    {"attendance", "activity_participations", "courses", "blogs", "books", "ideas",
     "top_performer_awards", "presentations", "penalties"}

RowCount(d) == Sum([t \in PointTables |-> Cardinality(d[t])], PointTables)

ConstraintsHold(d) ==
    /\ AttendanceUnique(d.attendance)
    /\ ParticipationUnique(d.activity_participations)
    /\ BlogUrlUnique(d.blogs)

\* INSERT INTO <tbl>: the row is stored unless a constraint rejects it
InsertAccepted(d, tbl, row) ==
    /\ row.player_id \in d.players
    /\ row \notin d[tbl]
    /\ ConstraintsHold([d EXCEPT ![tbl] = @ \cup {row}])

\* row level security: the tables with a FOR INSERT and a FOR UPDATE policy for
\* signed-in users; a statement on a table without one stores nothing
InsertPolicies ==
    {"attendance", "courses", "blogs", "presentations", "penalties", "activities",
     "activity_participations", "ideas"}

UpdatePolicies == {"attendance", "courses", "blogs", "presentations", "penalties"}

\* INSERT of several rows by a signed-in session: all rows are stored or none
InsertAllAccepted(d, tbl, rows) ==
    /\ tbl \in InsertPolicies
    /\ \A r \in rows : r.player_id \in d.players /\ r \notin d[tbl]
    /\ ConstraintsHold([d EXCEPT ![tbl] = @ \cup rows])

StoreInsert(d, tbl, row) == [d EXCEPT ![tbl] = @ \cup {row}]

\* the players table holds players 1..n; both cycles exist, each with one activity
StartDb(n, far) ==
    [EmptyDb EXCEPT !.players = 1..n, !.far_away = far,
                    !.active_cycle = ActiveCycleId,
                    !.activities = {[id |-> c, cycle_id |-> c] : c \in CycleIds}]

StartDbs ==
    {StartDb(n, far) : n \in 0..NumPlayers, far \in SUBSET RemoteCandidates}

SessionIds == {1, 2}


IdleScoring == [pc |-> "idle", isLoading |-> FALSE, error |-> "null", cycle |-> NoCycle]

\* null, as calculateAttendanceChampion returns it
NoChampion == [playerId |-> NoPlayer, attendanceCount |-> 0, bonusPoints |-> 0]

IdleChamp == [pc |-> "idle", cycle |-> NoCycle, playerCounts |-> <<>>, result |-> NoChampion]

\* no page has read the clock
NoClock == [day |-> 0, hour |-> 0, tz |-> 0]

NoUser == 0

\* useAuth before its mount effect, nobody signed in
IdleAuth ==
    [user |-> NoUser, playerData |-> NoPlayer, isLoading |-> TRUE,
     session |-> NoUser, calls |-> <<>>, events |-> <<>>, mounted |-> FALSE]

\* the handler's copy of the form while handleSubmit runs
NoSubmission ==
    [attendees |-> {}, topPerformer |-> NoPlayer, doublePointsPlayer |-> NoPlayer,
     cycle |-> NoCycle, activity |-> 0]

\* ActivityForm as useState leaves it
IdleForm ==
    [selectedActivity |-> FALSE, attendees |-> {}, topPerformer |-> NoPlayer,
     doublePointsPlayer |-> NoPlayer, isSubmitting |-> FALSE, pc |-> "edit",
     submitted |-> NoSubmission]

(***************************************************************************)
(* Data-entry sessions.  A session runs one handler at a time; pc is the   *)
(* await the handler is suspended at, the other fields are its locals and  *)
(* the message or return value it ended with.  A form field the handler    *)
(* reads only when it builds the records of an insert is drawn at that     *)
(* step: the handler's closure fixes it at entry and nothing in between    *)
(* depends on it.  Sessions are signed in (auth.uid() is not null).        *)
(***************************************************************************)
Session(pc, outcome, cycle, player, target, points) ==
    [pc |-> pc, outcome |-> outcome, cycle |-> cycle, player |-> player,
     target |-> target, points |-> points]

Idle(outcome) == Session("idle", outcome, NoCycle, NoPlayer, 0, 0)

IdleSessions == [s \in SessionIds |-> Idle("none")]

OtherVars == <<configured, entries, isLoading, error, inflight, hookPc, results,
               selected, scoring, streaks, champ, clock, auth, form>>


(***************************************************************************)
(* SELECT * FROM leaderboard, over every store of at most MaxRows rows.    *)
(***************************************************************************)
PopulateView ==
    /\ selected = <<>>
    /\ RowCount(db) < MaxRows
    /\ \E t \in ViewRows(db.players) :
          /\ t.row \notin db[t.tbl]
          /\ InsertAccepted(db, t.tbl, t.row)
          /\ db' = StoreInsert(db, t.tbl, t.row)
    /\ UNCHANGED <<configured, entries, isLoading, error, inflight, hookPc,
                   results, selected, scoring, streaks, sess, champ, clock, auth, form>>

SelectLeaderboard ==
    /\ selected = <<>>
    /\ selected' = <<LeaderboardView(db)>>
    /\ UNCHANGED <<db, configured, entries, isLoading, error, inflight, hookPc,
                   results, scoring, streaks, sess, champ, clock, auth, form>>

InitView ==
    /\ db \in {d \in StartDbs : d.far_away \subseteq d.players}
    /\ configured = TRUE
    /\ entries = <<>>
    /\ isLoading = TRUE
    /\ error = "null"
    /\ inflight = 0
    /\ hookPc = "mount"
    /\ results = <<>>
    /\ selected = <<>>
    /\ scoring = IdleScoring
    /\ streaks = <<>>
    /\ sess = IdleSessions
    /\ champ = IdleChamp
    /\ clock = NoClock
    /\ auth = IdleAuth
    /\ form = IdleForm

NextView == PopulateView \/ SelectLeaderboard

SpecView == InitView /\ [][NextView]_vars

(***************************************************************************)
(* useLeaderboard, mounted over every store of at most MaxRows rows.       *)
(***************************************************************************)
PopulateLb ==
    /\ hookPc = "mount"
    /\ RowCount(db) < MaxRows
    /\ \E t \in LbRows(db.players) :
          /\ t.row \notin db[t.tbl]
          /\ InsertAccepted(db, t.tbl, t.row)
          /\ db' = StoreInsert(db, t.tbl, t.row)
    /\ UNCHANGED <<configured, entries, isLoading, error, inflight, hookPc,
                   results, selected, scoring, streaks, sess, champ, clock, auth, form>>

InitLeaderboard ==
    /\ db \in {d \in StartDbs : d.far_away \subseteq d.players}
    /\ configured \in BOOLEAN
    /\ entries = <<>>
    /\ isLoading = TRUE
    /\ error = "null"
    /\ inflight = 0
    /\ hookPc = "mount"
    /\ results = <<>>
    /\ selected = <<>>
    /\ scoring = IdleScoring
    /\ streaks = <<>>
    /\ sess = IdleSessions
    /\ champ = IdleChamp
    /\ clock = NoClock
    /\ auth = IdleAuth
    /\ form = IdleForm

NextLeaderboard ==
    \/ PopulateLb
    \/ MountEffect
    \/ Refetch
    \/ FetchSettleOk
    \/ FetchSettleErr

SpecLeaderboard == InitLeaderboard /\ [][NextLeaderboard]_vars

\* the effect runs after the first render, and a request that was sent settles
SpecLeaderboardLive ==
    /\ InitLeaderboard
    /\ [][NextLeaderboard]_vars
    /\ WF_vars(MountEffect)
    /\ WF_vars(FetchSettleErr \/ FetchSettleOk)

(***************************************************************************)
(* useAdvancedScoring.calculateStreaks.                                    *)
(***************************************************************************)
Max(a, b) == IF a >= b THEN a ELSE b

\* info.dates.sort(): the dates of one player in ascending order
RECURSIVE SortDates(_)
SortDates(S) ==
    IF S = {} THEN <<>>
    ELSE LET least == CHOOSE d \in S : \A e \in S : d <= e
         IN <<least>> \o SortDates(S \ {least})

\* Math.round((currDate.getTime() - prevDate.getTime()) / (1000 * 60 * 60 * 24))
DaysDiff(prevDate, currDate) == currDate - prevDate

\* the scan that never resets currentStreak
RECURSIVE ScanRunsNoReset(_, _, _, _)
ScanRunsNoReset(sortedDates, i, currentStreak, maxConsecutive) ==
    IF i > Len(sortedDates) THEN maxConsecutive
    ELSE IF DaysDiff(sortedDates[i - 1], sortedDates[i]) = 7
         THEN ScanRunsNoReset(sortedDates, i + 1, currentStreak + 1,
                              Max(maxConsecutive, currentStreak + 1))
         ELSE ScanRunsNoReset(sortedDates, i + 1, currentStreak, maxConsecutive)

\* for (let i = 1; i < sortedDates.length; i++) { ... }, i counted from 1 here
RECURSIVE ScanRuns(_, _, _, _)
ScanRuns(sortedDates, i, currentStreak, maxConsecutive) ==
    IF i > Len(sortedDates) THEN maxConsecutive
    ELSE IF DaysDiff(sortedDates[i - 1], sortedDates[i]) = 7
         THEN ScanRuns(sortedDates, i + 1, currentStreak + 1,
                       Max(maxConsecutive, currentStreak + 1))
         ELSE ScanRuns(sortedDates, i + 1, 1, maxConsecutive)

MaxConsecutive(dates) == ScanRuns(SortDates(dates), 2, 1, 1)

StreakBonus(maxConsecutive) == maxConsecutive \div 2

\* .from('attendance').eq('cycle_id', cycle.id)
AttendanceOfCycle(d, c) == {r \in d.attendance : r.cycle_id = c}

DatesOf(rows, p) == {r.check_in_date : r \in RowsOf(rows, p)}

StreakInfo(rows, p) ==
    [playerId |-> p,
     consecutiveWeeks |-> MaxConsecutive(DatesOf(rows, p)),
     bonusPoints |-> StreakBonus(MaxConsecutive(DatesOf(rows, p)))]

EarliestDate(rows, p) == CHOOSE d \in DatesOf(rows, p) : \A e \in DatesOf(rows, p) : d <= e

\* playerStreaks is filled in the order of the rows, which come by ascending
\* check_in_date; players whose first rows have the same date come in any order.
StreakOrders(rows) ==
    LET P == {r.player_id : r \in rows}
        n == Cardinality(P)
    IN {o \in [1..n -> P] :
          /\ \A i, j \in 1..n : i # j => o[i] # o[j]
          /\ \A i \in 1..(n - 1) :
                EarliestDate(rows, o[i]) <= EarliestDate(rows, o[i + 1])}

RECURSIVE StreakInfosFrom(_, _, _)
StreakInfosFrom(rows, order, i) ==
    IF i > Len(order) THEN <<>>
    ELSE LET info == StreakInfo(rows, order[i])
         IN (IF info.bonusPoints > 0 THEN <<info>> ELSE <<>>)
            \o StreakInfosFrom(rows, order, i + 1)

MockStreaks ==
    << [playerId |-> 1, consecutiveWeeks |-> 4, bonusPoints |-> 2],
       [playerId |-> 2, consecutiveWeeks |-> 2, bonusPoints |-> 1] >>

\* calculateStreaks up to its first await
StreaksStart ==
    /\ scoring.pc = "idle"
    /\ IF ~configured
       THEN /\ streaks' = MockStreaks
            /\ scoring' = [scoring EXCEPT !.pc = "done"]
       ELSE /\ streaks' = streaks
            /\ scoring' = [scoring EXCEPT !.pc = "awaitCycle", !.isLoading = TRUE,
                                          !.error = "null"]
    /\ UNCHANGED <<db, configured, entries, isLoading, error, inflight, hookPc,
                   results, selected, sess, champ, clock, auth, form>>

\* the cycles query answered: the active cycle, or no row
StreaksGotCycle ==
    /\ scoring.pc = "awaitCycle"
    /\ IF db.active_cycle = NoCycle
       THEN /\ scoring' = [scoring EXCEPT !.pc = "done", !.isLoading = FALSE,
                                          !.error = "No active cycle"]
            /\ streaks' = <<>>
       ELSE /\ scoring' = [scoring EXCEPT !.pc = "awaitAttendance",
                                          !.cycle = db.active_cycle]
            /\ streaks' = streaks
    /\ UNCHANGED <<db, configured, entries, isLoading, error, inflight, hookPc,
                   results, selected, sess, champ, clock, auth, form>>

\* the attendance query answered with rows: group, scan, return
StreaksGotAttendance ==
    /\ scoring.pc = "awaitAttendance"
    /\ \E order \in StreakOrders(AttendanceOfCycle(db, scoring.cycle)) :
          streaks' = StreakInfosFrom(AttendanceOfCycle(db, scoring.cycle), order, 1)
    /\ scoring' = [scoring EXCEPT !.pc = "done", !.isLoading = FALSE]
    /\ UNCHANGED <<db, configured, entries, isLoading, error, inflight, hookPc,
                   results, selected, sess, champ, clock, auth, form>>

\* the attendance query answered with an error: catch
StreaksAttendanceError ==
    /\ scoring.pc = "awaitAttendance"
    /\ streaks' = <<>>
    /\ scoring' = [scoring EXCEPT !.pc = "done", !.isLoading = FALSE,
                                  !.error = "Failed to calculate streaks"]
    /\ UNCHANGED <<db, configured, entries, isLoading, error, inflight, hookPc,
                   results, selected, sess, champ, clock, auth, form>>

(***************************************************************************)
(* The calculators over every attendance table of at most MaxAttendance    *)
(* rows: check-ins of the active cycle on days 7..28 and of the earlier    *)
(* cycle on day 0.                                                         *)
(***************************************************************************)
MaxAttendance == 4

ActiveCycleDays == {7, 14, 17, 21, 24, 28}

StreakRows(P) ==
    [player_id : P, cycle_id : {ActiveCycleId}, check_in_date : ActiveCycleDays,
     is_early_bird : {FALSE}, points : {1}]
    \cup
    [player_id : P, cycle_id : {1}, check_in_date : {0},
     is_early_bird : {FALSE}, points : {1}]

PopulateAttendance ==
    /\ scoring.pc = "idle"
    /\ Cardinality(db.attendance) < MaxAttendance
    /\ \E r \in StreakRows(db.players) :
          /\ r \notin db.attendance
          /\ InsertAccepted(db, "attendance", r)
          /\ db' = StoreInsert(db, "attendance", r)
    /\ UNCHANGED <<configured, entries, isLoading, error, inflight, hookPc,
                   results, selected, scoring, streaks, sess, champ, clock, auth, form>>

InitStreaks ==
    /\ db \in {[StartDb(n, {}) EXCEPT !.active_cycle = c] :
                 n \in 0..NumPlayers, c \in {ActiveCycleId, NoCycle}}
    /\ configured \in BOOLEAN
    /\ entries = <<>>
    /\ isLoading = TRUE
    /\ error = "null"
    /\ inflight = 0
    /\ hookPc = "mount"
    /\ results = <<>>
    /\ selected = <<>>
    /\ scoring = IdleScoring
    /\ streaks = <<>>
    /\ sess = IdleSessions
    /\ champ = IdleChamp
    /\ clock = NoClock
    /\ auth = IdleAuth
    /\ form = IdleForm

NextStreaks ==
    \/ PopulateAttendance
    \/ StreaksStart
    \/ StreaksGotCycle
    \/ StreaksGotAttendance
    \/ StreaksAttendanceError

SpecStreaks == InitStreaks /\ [][NextStreaks]_vars

(***************************************************************************)
(* ActivityForm.handleSubmit and applyDoublePoints.                        *)
(***************************************************************************)
ACTIVITY_ATTENDANCE == 10
ACTIVITY_TOP_PERFORMER == 20

\* doubles the attendance points only
calculatePlayerPointsBaseDoubled(playerId, topPerformer, doublePointsPlayer) ==
    (IF playerId = doublePointsPlayer THEN ACTIVITY_ATTENDANCE * 2 ELSE ACTIVITY_ATTENDANCE)
    + (IF playerId = topPerformer THEN ACTIVITY_TOP_PERFORMER ELSE 0)

calculatePlayerPoints(playerId, topPerformer, doublePointsPlayer) ==
    LET points == ACTIVITY_ATTENDANCE
                  + (IF playerId = topPerformer THEN ACTIVITY_TOP_PERFORMER ELSE 0)
    IN  IF playerId = doublePointsPlayer THEN points * 2 ELSE points

Participation(activity, p, top, double, points) ==
    [activity_id |-> activity, player_id |-> p, is_top_performer |-> top,
     double_points_used |-> double, points |-> points]

\* .eq('player_id', p).eq('double_points_used', true): no cycle in the filter
ExistingDouble(d, p) ==
    {r \in d.activity_participations : r.player_id = p /\ r.double_points_used}

CycleOfActivity(d, a) == (CHOOSE x \in d.activities : x.id = a).cycle_id

NextActivityId(d) == Cardinality(d.activities) + 1

MaxActivities == 2

\* submissions that have not inserted their activity yet
PendingActivities ==
    Cardinality({s \in SessionIds : sess[s].pc \in {"afCycle", "afCheck", "afActivity"}})

\* handleSubmit up to the cycles query; doublePointsPlayer is the form's state
SubmitActivity(s) ==
    /\ sess[s].pc = "idle"
    /\ db.players # {}
    /\ IF ~configured
       THEN /\ sess' = [sess EXCEPT ![s] = Idle("ok")]
            /\ db' = db
       ELSE /\ Cardinality(db.activities) + PendingActivities < MaxActivities + 1
            /\ \E doublePointsPlayer \in db.players \cup {NoPlayer} :
                  sess' = [sess EXCEPT ![s] =
                             Session("afCycle", "none", NoCycle, doublePointsPlayer, 0, 0)]
            /\ db' = db
    /\ UNCHANGED OtherVars

\* the cycles query answered; the double-points check or the activity insert is sent
ActivityGotCycle(s) ==
    /\ sess[s].pc = "afCycle"
    /\ sess' = [sess EXCEPT ![s] =
                  IF db.active_cycle = NoCycle THEN Idle("failed")
                  ELSE [@ EXCEPT !.cycle = db.active_cycle,
                                 !.pc = IF sess[s].player # NoPlayer
                                        THEN "afCheck" ELSE "afActivity"]]
    /\ UNCHANGED <<db, OtherVars>>

\* the existingDouble query answered
ActivityGotExistingDouble(s) ==
    /\ sess[s].pc = "afCheck"
    /\ sess' = [sess EXCEPT ![s] =
                  IF ExistingDouble(db, sess[s].player) # {}
                  THEN [@ EXCEPT !.pc = "idle", !.outcome = "refused"]
                  ELSE [@ EXCEPT !.pc = "afActivity"]]
    /\ UNCHANGED <<db, OtherVars>>

\* INSERT INTO activities ... RETURNING
ActivityInserted(s) ==
    /\ sess[s].pc = "afActivity"
    /\ IF "activities" \in InsertPolicies
       THEN /\ db' = [db EXCEPT !.activities =
                        @ \cup {[id |-> NextActivityId(db), cycle_id |-> sess[s].cycle]}]
            /\ sess' = [sess EXCEPT ![s] = [@ EXCEPT !.pc = "afParticipations",
                                                    !.target = NextActivityId(db)]]
       ELSE /\ db' = db
            /\ sess' = [sess EXCEPT ![s] = Idle("failed")]
    /\ UNCHANGED OtherVars

\* the participations built from attendees and topPerformer, inserted in one statement
ParticipationsInserted(s) ==
    /\ sess[s].pc = "afParticipations"
    /\ \E attendees \in (SUBSET db.players) \ {{}} :
       \E topPerformer \in attendees \cup {NoPlayer} :
          /\ sess[s].player \in attendees \cup {NoPlayer}
          /\ LET participations ==
                     {Participation(sess[s].target, p, p = topPerformer,
                                    p = sess[s].player,
                                    calculatePlayerPoints(p, topPerformer, sess[s].player))
                      : p \in attendees}
             IN  IF InsertAllAccepted(db, "activity_participations", participations)
                 THEN /\ db' = [db EXCEPT !.activity_participations =
                                    @ \cup participations]
                      /\ sess' = [sess EXCEPT ![s] = Idle("ok")]
                 ELSE /\ db' = db
                      /\ sess' = [sess EXCEPT ![s] = Idle("failed")]
    /\ UNCHANGED OtherVars

\* applyDoublePoints(activityParticipationId) up to the participation query
ApplyDoublePoints(s) ==
    /\ sess[s].pc = "idle"
    /\ \E r \in db.activity_participations :
          sess' = [sess EXCEPT ![s] =
                     IF ~configured THEN Idle("ok")
                     ELSE Session("dpFetch", "none", NoCycle, r.player_id,
                                  r.activity_id, 0)]
    /\ UNCHANGED <<db, OtherVars>>

\* the participation row answered
ApplyGotParticipation(s) ==
    /\ sess[s].pc = "dpFetch"
    /\ \E participation \in db.activity_participations :
          /\ participation.activity_id = sess[s].target
          /\ participation.player_id = sess[s].player
          /\ sess' = [sess EXCEPT ![s] =
                        IF participation.double_points_used THEN Idle("already")
                        ELSE [@ EXCEPT !.pc = "dpCycle",
                                       !.points = participation.points]]
    /\ UNCHANGED <<db, OtherVars>>

ApplyGotCycle(s) ==
    /\ sess[s].pc = "dpCycle"
    /\ sess' = [sess EXCEPT ![s] =
                  IF db.active_cycle = NoCycle THEN Idle("failed")
                  ELSE [@ EXCEPT !.cycle = db.active_cycle, !.pc = "dpCheck"]]
    /\ UNCHANGED <<db, OtherVars>>

ApplyGotExisting(s) ==
    /\ sess[s].pc = "dpCheck"
    /\ sess' = [sess EXCEPT ![s] =
                  IF ExistingDouble(db, sess[s].player) # {}
                  THEN [@ EXCEPT !.pc = "idle", !.outcome = "refused"]
                  ELSE [@ EXCEPT !.pc = "dpUpdate"]]
    /\ UNCHANGED <<db, OtherVars>>

\* UPDATE activity_participations SET points, double_points_used WHERE id: the
\* rows the session's policies let it update; the statement reports no error
ApplyUpdated(s) ==
    /\ sess[s].pc = "dpUpdate"
    /\ db' = IF "activity_participations" \in UpdatePolicies
             THEN [db EXCEPT !.activity_participations =
                     {IF r.activity_id = sess[s].target /\ r.player_id = sess[s].player
                      THEN [r EXCEPT !.points = sess[s].points * 2,
                                     !.double_points_used = TRUE]
                      ELSE r : r \in @}]
             ELSE db
    /\ sess' = [sess EXCEPT ![s] = Idle("ok")]
    /\ UNCHANGED OtherVars

\* what the earlier cycle left behind: its activity, and player 1 absent from it,
\* present, or present with double points
EarlierParticipations ==
    {{}, {Participation(1, 1, FALSE, FALSE, calculatePlayerPoints(1, NoPlayer, NoPlayer))},
         {Participation(1, 1, FALSE, TRUE, calculatePlayerPoints(1, NoPlayer, 1))}}

InitActivity ==
    /\ db \in {[EmptyDb EXCEPT !.players = 1..n, !.active_cycle = c,
                               !.activities = {[id |-> 1, cycle_id |-> 1]},
                               !.activity_participations = e] :
                 n \in 1..NumPlayers, c \in {ActiveCycleId, NoCycle},
                 e \in EarlierParticipations}
    /\ configured \in BOOLEAN
    /\ entries = <<>>
    /\ isLoading = TRUE
    /\ error = "null"
    /\ inflight = 0
    /\ hookPc = "mount"
    /\ results = <<>>
    /\ selected = <<>>
    /\ scoring = IdleScoring
    /\ streaks = <<>>
    /\ sess = IdleSessions
    /\ champ = IdleChamp
    /\ clock = NoClock
    /\ auth = IdleAuth
    /\ form = IdleForm

NextActivity ==
    \E s \in SessionIds :
        \/ SubmitActivity(s)
        \/ ActivityGotCycle(s)
        \/ ActivityGotExistingDouble(s)
        \/ ActivityInserted(s)
        \/ ParticipationsInserted(s)
        \/ ApplyDoublePoints(s)
        \/ ApplyGotParticipation(s)
        \/ ApplyGotCycle(s)
        \/ ApplyGotExisting(s)
        \/ ApplyUpdated(s)

SpecActivity == InitActivity /\ [][NextActivity]_vars

(***************************************************************************)
(* Check-ins: CheckInPage.handleCheckIn, CheckInCard.handleCheckIn and     *)
(* AttendanceForm.handleSubmit.  check_in_date is lastWednesdayStr, the    *)
(* Wednesday the page was rendered for.                                    *)
(***************************************************************************)
CheckInDays == {7, 14}

AttendanceRow(p, c, date, early) ==
    [player_id |-> p, cycle_id |-> c, check_in_date |-> date, is_early_bird |-> early,
     points |-> 1]

\* CheckInPage.handleCheckIn up to the cycles query
PageCheckIn(s) ==
    /\ sess[s].pc = "idle"
    /\ \E selectedPlayer \in db.players, lastWednesdayStr \in CheckInDays :
          sess' = [sess EXCEPT ![s] =
                     IF ~configured THEN Idle("ok")
                     ELSE Session("ciCycle", "none", NoCycle, selectedPlayer,
                                  lastWednesdayStr, 0)]
    /\ UNCHANGED <<db, OtherVars>>

PageGotCycle(s) ==
    /\ sess[s].pc = "ciCycle"
    /\ sess' = [sess EXCEPT ![s] =
                  IF db.active_cycle = NoCycle THEN Idle("failed")
                  ELSE [@ EXCEPT !.cycle = db.active_cycle, !.pc = "ciInsert"]]
    /\ UNCHANGED <<db, OtherVars>>

\* the insert answered: stored, or error 23505 and the already-checked-in message
PageInserted(s) ==
    /\ sess[s].pc = "ciInsert"
    /\ \E isEarlyBird \in BOOLEAN :
          LET record == AttendanceRow(sess[s].player, sess[s].cycle, sess[s].target,
                                      isEarlyBird)
          IN  IF InsertAllAccepted(db, "attendance", {record})
              THEN /\ db' = StoreInsert(db, "attendance", record)
                   /\ sess' = [sess EXCEPT ![s] = Idle("ok")]
              ELSE /\ db' = db
                   /\ sess' = [sess EXCEPT ![s] =
                                 [@ EXCEPT !.pc = "idle", !.outcome = "duplicate"]]
    /\ UNCHANGED OtherVars

\* CheckInCard.handleCheckIn up to the cycles query
CardCheckIn(s) ==
    /\ sess[s].pc = "idle"
    /\ \E userId \in db.players, lastWednesdayStr \in CheckInDays :
          sess' = [sess EXCEPT ![s] =
                     IF ~configured THEN Idle("none")
                     ELSE Session("ccCycle", "none", NoCycle, userId,
                                  lastWednesdayStr, 0)]
    /\ UNCHANGED <<db, OtherVars>>

CardGotCycle(s) ==
    /\ sess[s].pc = "ccCycle"
    /\ sess' = [sess EXCEPT ![s] =
                  IF db.active_cycle = NoCycle THEN Idle("failed")
                  ELSE [@ EXCEPT !.cycle = db.active_cycle, !.pc = "ccInsert"]]
    /\ UNCHANGED <<db, OtherVars>>

CardInserted(s) ==
    /\ sess[s].pc = "ccInsert"
    /\ \E isEarlyBird \in BOOLEAN :
          LET record == AttendanceRow(sess[s].player, sess[s].cycle, sess[s].target,
                                      isEarlyBird)
          IN  IF InsertAllAccepted(db, "attendance", {record})
              THEN /\ db' = StoreInsert(db, "attendance", record)
                   /\ sess' = [sess EXCEPT ![s] = Idle("ok")]
              ELSE /\ db' = db
                   /\ sess' = [sess EXCEPT ![s] = Idle("failed")]
    /\ UNCHANGED OtherVars

\* AttendanceForm.handleSubmit up to the cycles query
LogAttendance(s) ==
    /\ sess[s].pc = "idle"
    /\ db.players # {}
    /\ sess' = [sess EXCEPT ![s] =
                  IF ~configured THEN Idle("ok")
                  ELSE Session("atCycle", "none", NoCycle, NoPlayer, 0, 0)]
    /\ UNCHANGED <<db, OtherVars>>

AttendanceGotCycle(s) ==
    /\ sess[s].pc = "atCycle"
    /\ sess' = [sess EXCEPT ![s] =
                  IF db.active_cycle = NoCycle THEN Idle("failed")
                  ELSE [@ EXCEPT !.cycle = db.active_cycle, !.pc = "atInsert"]]
    /\ UNCHANGED <<db, OtherVars>>

\* the records of selectedPlayers, inserted in one statement
AttendanceInserted(s) ==
    /\ sess[s].pc = "atInsert"
    /\ \E selectedPlayers \in (SUBSET db.players) \ {{}} :
       \E earlyBirdPlayers \in SUBSET selectedPlayers :
       \E lastWednesdayStr \in CheckInDays :
          LET records == {AttendanceRow(p, sess[s].cycle, lastWednesdayStr,
                                        p \in earlyBirdPlayers) : p \in selectedPlayers}
          IN  IF InsertAllAccepted(db, "attendance", records)
              THEN /\ db' = [db EXCEPT !.attendance = @ \cup records]
                   /\ sess' = [sess EXCEPT ![s] = Idle("ok")]
              ELSE /\ db' = db
                   /\ sess' = [sess EXCEPT ![s] = Idle("failed")]
    /\ UNCHANGED OtherVars

InitAttendance ==
    /\ db \in {[EmptyDb EXCEPT !.players = 1..n, !.active_cycle = c] :
                 n \in 1..NumPlayers, c \in {ActiveCycleId, NoCycle}}
    /\ configured \in BOOLEAN
    /\ entries = <<>>
    /\ isLoading = TRUE
    /\ error = "null"
    /\ inflight = 0
    /\ hookPc = "mount"
    /\ results = <<>>
    /\ selected = <<>>
    /\ scoring = IdleScoring
    /\ streaks = <<>>
    /\ sess = IdleSessions
    /\ champ = IdleChamp
    /\ clock = NoClock
    /\ auth = IdleAuth
    /\ form = IdleForm

NextAttendance ==
    \E s \in SessionIds :
        \/ PageCheckIn(s)
        \/ PageGotCycle(s)
        \/ PageInserted(s)
        \/ CardCheckIn(s)
        \/ CardGotCycle(s)
        \/ CardInserted(s)
        \/ LogAttendance(s)
        \/ AttendanceGotCycle(s)
        \/ AttendanceInserted(s)

SpecAttendance == InitAttendance /\ [][NextAttendance]_vars

(***************************************************************************)
(* Blogs: AddBlogModal.handleSubmit and PointsForm.handleSubmit with       *)
(* category "blog".                                                        *)
(***************************************************************************)
MaxUrls == 2

BlogUrls == 1..MaxUrls

FIRST_BLOG == 30
SUBSEQUENT_BLOG == 20

\* the columns of blogs the model keeps, and name
BlogColumns == {"id", "player_id", "cycle_id", "name", "url", "is_first", "points"}

\* blogs.id DEFAULT uuid_generate_v4(): a value no stored row has
NextBlogId(d) ==
    CHOOSE i \in 1..(Cardinality(d.blogs) + 1) : \A r \in d.blogs : r.id # i

\* AddBlogModal.handleSubmit up to the duplicate-url query
AddBlog(s) ==
    /\ sess[s].pc = "idle"
    /\ \E userId \in db.players, url \in BlogUrls :
          sess' = [sess EXCEPT ![s] =
                     IF ~configured THEN Idle("ok")
                     ELSE Session("abExisting", "none", NoCycle, userId, url, 0)]
    /\ UNCHANGED <<db, OtherVars>>

\* the player's blogs with this url answered
AddBlogGotExisting(s) ==
    /\ sess[s].pc = "abExisting"
    /\ LET existing == {r \in RowsOf(db.blogs, sess[s].player) : r.url = sess[s].target}
       IN  sess' = [sess EXCEPT ![s] =
                      IF existing # {} THEN Idle("duplicate")
                      ELSE [@ EXCEPT !.pc = "abUserBlogs"]]
    /\ UNCHANGED <<db, OtherVars>>

\* the player's blogs answered: isFirst and points
AddBlogGotUserBlogs(s) ==
    /\ sess[s].pc = "abUserBlogs"
    /\ LET isFirst == RowsOf(db.blogs, sess[s].player) = {}
       IN  sess' = [sess EXCEPT ![s] =
                      [@ EXCEPT !.pc = "abCycle",
                                !.points = IF isFirst THEN FIRST_BLOG
                                           ELSE SUBSEQUENT_BLOG]]
    /\ UNCHANGED <<db, OtherVars>>

AddBlogGotCycle(s) ==
    /\ sess[s].pc = "abCycle"
    /\ sess' = [sess EXCEPT ![s] =
                  IF db.active_cycle = NoCycle THEN Idle("failed")
                  ELSE [@ EXCEPT !.cycle = db.active_cycle, !.pc = "abInsert"]]
    /\ UNCHANGED <<db, OtherVars>>

\* the row AddBlogModal sends
BlogRecord(s) ==
    [id |-> NextBlogId(db),
     player_id |-> sess[s].player, cycle_id |-> sess[s].cycle,
     url |-> sess[s].target,
     is_first |-> (sess[s].points = FIRST_BLOG),
     points |-> sess[s].points]

\* the insert answered; its error is not read, so the modal closes either way
AddBlogInserted(s) ==
    /\ sess[s].pc = "abInsert"
    /\ LET record == BlogRecord(s)
       IN  db' = IF InsertAllAccepted(db, "blogs", {record})
                 THEN StoreInsert(db, "blogs", record)
                 ELSE db
    /\ sess' = [sess EXCEPT ![s] = Idle("ok")]
    /\ UNCHANGED OtherVars

\* PointsForm.handleSubmit, category blog, up to the cycles query
PointsBlog(s) ==
    /\ sess[s].pc = "idle"
    /\ \E selectedPlayer \in db.players :
          sess' = [sess EXCEPT ![s] =
                     IF ~configured THEN Idle("ok")
                     ELSE Session("pfCycle", "none", NoCycle, selectedPlayer, 0, 0)]
    /\ UNCHANGED <<db, OtherVars>>

PointsBlogGotCycle(s) ==
    /\ sess[s].pc = "pfCycle"
    /\ sess' = [sess EXCEPT ![s] =
                  IF db.active_cycle = NoCycle THEN Idle("failed")
                  ELSE [@ EXCEPT !.cycle = db.active_cycle, !.pc = "pfInsert"]]
    /\ UNCHANGED <<db, OtherVars>>

\* the record carries title and no name; blogs has no such column
PointsBlogInserted(s) ==
    /\ sess[s].pc = "pfInsert"
    /\ \E points \in {10, 30} :
          LET record == [player_id |-> sess[s].player, cycle_id |-> sess[s].cycle,
                         points |-> points, title |-> "Blog Post", url |-> 0]
          IN  IF DOMAIN record \subseteq BlogColumns
                 /\ InsertAllAccepted(db, "blogs", {record})
              THEN /\ db' = StoreInsert(db, "blogs", record)
                   /\ sess' = [sess EXCEPT ![s] = Idle("ok")]
              ELSE /\ db' = db
                   /\ sess' = [sess EXCEPT ![s] = Idle("failed")]
    /\ UNCHANGED OtherVars

InitBlog ==
    /\ db \in {[EmptyDb EXCEPT !.players = 1..n, !.active_cycle = c] :
                 n \in 1..NumPlayers, c \in {ActiveCycleId, NoCycle}}
    /\ configured \in BOOLEAN
    /\ entries = <<>>
    /\ isLoading = TRUE
    /\ error = "null"
    /\ inflight = 0
    /\ hookPc = "mount"
    /\ results = <<>>
    /\ selected = <<>>
    /\ scoring = IdleScoring
    /\ streaks = <<>>
    /\ sess = IdleSessions
    /\ champ = IdleChamp
    /\ clock = NoClock
    /\ auth = IdleAuth
    /\ form = IdleForm

NextBlog ==
    \E s \in SessionIds :
        \/ AddBlog(s)
        \/ AddBlogGotExisting(s)
        \/ AddBlogGotUserBlogs(s)
        \/ AddBlogGotCycle(s)
        \/ AddBlogInserted(s)
        \/ PointsBlog(s)
        \/ PointsBlogGotCycle(s)
        \/ PointsBlogInserted(s)

SpecBlog == InitBlog /\ [][NextBlog]_vars

(***************************************************************************)
(* calculateAttendanceChampion.  StreaksPanel.refreshData starts it        *)
(* together with calculateStreaks (Promise.all); both write the hook's     *)
(* isLoading and error.                                                    *)
(***************************************************************************)
ATTENDANCE_CHAMPION == 10

MockChampion == [playerId |-> 1, attendanceCount |-> 24, bonusPoints |-> ATTENDANCE_CHAMPION]

\* what the catch block returns
ChampionOnErrorMock == MockChampion

ChampionOnError == NoChampion

AllAttendance(d, c) == d.attendance

\* attendance .eq('cycle_id', cycle.id), joined to players
ChampionRowsOf(d, c) == {r \in d.attendance : r.cycle_id = c /\ r.player_id \in d.players}

\* the query has no ORDER BY: the players' first rows come in any order, and
\* that is the insertion order of the playerCounts map
ChampionOrders(rows) ==
    LET P == {r.player_id : r \in rows}
        n == Cardinality(P)
    IN {o \in [1..n -> P] : \A i, j \in 1..n : i # j => o[i] # o[j]}

PlayerCounts(rows, order) ==
    [i \in 1..Len(order) |->
        [playerId |-> order[i], count |-> Cardinality(RowsOf(rows, order[i]))]]

RECURSIVE ScanChampionLastWins(_, _, _, _)
ScanChampionLastWins(playerCounts, i, champion, maxCount) ==
    IF i > Len(playerCounts) THEN champion
    ELSE IF playerCounts[i].count >= maxCount
         THEN ScanChampionLastWins(playerCounts, i + 1,
                  [playerId |-> playerCounts[i].playerId,
                   attendanceCount |-> playerCounts[i].count,
                   bonusPoints |-> ATTENDANCE_CHAMPION], playerCounts[i].count)
         ELSE ScanChampionLastWins(playerCounts, i + 1, champion, maxCount)

\* playerCounts.forEach: a strictly greater count replaces the champion
RECURSIVE ScanChampionFrom(_, _, _, _)
ScanChampionFrom(playerCounts, i, champion, maxCount) ==
    IF i > Len(playerCounts) THEN champion
    ELSE IF playerCounts[i].count > maxCount
         THEN ScanChampionFrom(playerCounts, i + 1,
                  [playerId |-> playerCounts[i].playerId,
                   attendanceCount |-> playerCounts[i].count,
                   bonusPoints |-> ATTENDANCE_CHAMPION], playerCounts[i].count)
         ELSE ScanChampionFrom(playerCounts, i + 1, champion, maxCount)

ScanChampion(playerCounts, i, champion, maxCount) ==
    ScanChampionFrom(playerCounts, i, champion, maxCount)

\* calculateAttendanceChampion up to its first await
ChampionStart ==
    /\ champ.pc = "idle"
    /\ IF ~configured
       THEN /\ champ' = [champ EXCEPT !.pc = "done", !.result = MockChampion]
            /\ scoring' = scoring
       ELSE /\ champ' = [champ EXCEPT !.pc = "awaitCycle"]
            /\ scoring' = [scoring EXCEPT !.isLoading = TRUE, !.error = "null"]
    /\ UNCHANGED <<db, configured, entries, isLoading, error, inflight, hookPc,
                   results, selected, streaks, sess, clock, auth, form>>

\* the cycles query answered: the active cycle, or no row and the catch block
ChampionGotCycle ==
    /\ champ.pc = "awaitCycle"
    /\ IF db.active_cycle = NoCycle
       THEN /\ champ' = [champ EXCEPT !.pc = "failed", !.result = ChampionOnError]
            /\ scoring' = [scoring EXCEPT !.isLoading = FALSE,
                                          !.error = "No active cycle"]
       ELSE /\ champ' = [champ EXCEPT !.pc = "awaitCounts", !.cycle = db.active_cycle]
            /\ scoring' = scoring
    /\ UNCHANGED <<db, configured, entries, isLoading, error, inflight, hookPc,
                   results, selected, streaks, sess, clock, auth, form>>

\* the attendance query answered with rows: group, count, scan, return
ChampionGotCounts ==
    /\ champ.pc = "awaitCounts"
    /\ \E order \in ChampionOrders(ChampionRowsOf(db, champ.cycle)) :
          LET playerCounts == PlayerCounts(ChampionRowsOf(db, champ.cycle), order)
          IN  champ' = [champ EXCEPT !.pc = "done", !.playerCounts = playerCounts,
                                     !.result = ScanChampion(playerCounts, 1,
                                                             NoChampion, 0)]
    /\ scoring' = [scoring EXCEPT !.isLoading = FALSE]
    /\ UNCHANGED <<db, configured, entries, isLoading, error, inflight, hookPc,
                   results, selected, streaks, sess, clock, auth, form>>

\* the attendance query answered with an error: catch
ChampionCountsError ==
    /\ champ.pc = "awaitCounts"
    /\ champ' = [champ EXCEPT !.pc = "failed", !.result = ChampionOnError]
    /\ scoring' = [scoring EXCEPT !.isLoading = FALSE, !.error = "Failed to calculate"]
    /\ UNCHANGED <<db, configured, entries, isLoading, error, inflight, hookPc,
                   results, selected, streaks, sess, clock, auth, form>>

\* check-ins of the active cycle on two Wednesdays and of the earlier cycle
ChampionRows(P) ==
    [player_id : P, cycle_id : {ActiveCycleId}, check_in_date : {7, 14},
     is_early_bird : {FALSE}, points : {1}]
    \cup
    [player_id : P, cycle_id : {1}, check_in_date : {0},
     is_early_bird : {FALSE}, points : {1}]

PopulateChampion ==
    /\ scoring.pc = "idle"
    /\ champ.pc = "idle"
    /\ Cardinality(db.attendance) < MaxAttendance
    /\ \E r \in ChampionRows(db.players) :
          /\ InsertAccepted(db, "attendance", r)
          /\ db' = StoreInsert(db, "attendance", r)
    /\ UNCHANGED <<configured, entries, isLoading, error, inflight, hookPc,
                   results, selected, scoring, streaks, sess, champ, clock, auth, form>>

InitChampion == InitStreaks

NextChampion ==
    \/ PopulateChampion
    \/ StreaksStart
    \/ StreaksGotCycle
    \/ StreaksGotAttendance
    \/ StreaksAttendanceError
    \/ ChampionStart
    \/ ChampionGotCycle
    \/ ChampionGotCounts
    \/ ChampionCountsError

SpecChampion == InitChampion /\ [][NextChampion]_vars

(***************************************************************************)
(* Courses: CourseForm.handleSubmit, EditCourseModal.handleSubmit and      *)
(* PointsForm.handleSubmit with category "course".  A courses row carries  *)
(* its id here, because the edit addresses it by id; its points column is  *)
(* generated from total_hours and completion_percent.                      *)
(***************************************************************************)
MaxCourses == 2

CourseHours == {1, 2}

CoursePercents == {59, 60}

\* the columns of courses an INSERT may name
CourseColumns ==
    {"player_id", "cycle_id", "name", "course_url", "total_hours", "completion_percent",
     "notes_link", "verified", "created_at"}

CourseRow(id, p, c, hours, percent, verified) ==
    [id |-> id, player_id |-> p, cycle_id |-> c, total_hours |-> hours,
     completion_percent |-> percent, verified |-> verified]

NextCourseId(d) == Cardinality(d.courses) + 1

\* submissions that have not inserted their course yet
PendingCourses ==
    Cardinality({s \in SessionIds : sess[s].pc \in {"cfCycle", "cfInsert"}})

\* a row below the forms' minimum completion, written to the store directly,
\* verified left at its default
PopulateCourse ==
    /\ \A s \in SessionIds : sess[s].pc = "idle"
    /\ Cardinality(db.courses) < MaxCourses
    /\ \E p \in db.players, percent \in {c \in CoursePercents : c < 60} :
          db' = StoreInsert(db, "courses",
                            CourseRow(NextCourseId(db), p, ActiveCycleId, 2, percent,
                                      FALSE))
    /\ UNCHANGED <<sess, OtherVars>>

\* CourseForm.handleSubmit up to the cycles query: a completion below 60 is
\* refused before anything is sent
SubmitCourse(s) ==
    /\ sess[s].pc = "idle"
    /\ Cardinality(db.courses) + PendingCourses < MaxCourses
    /\ db.players # {}
    /\ \E completion \in CoursePercents :
          sess' = [sess EXCEPT ![s] =
                     IF completion < 60 THEN Idle("refused")
                     ELSE IF ~configured THEN Idle("ok")
                     ELSE Session("cfCycle", "none", NoCycle, NoPlayer, 0, 0)]
    /\ UNCHANGED <<db, OtherVars>>

CourseGotCycle(s) ==
    /\ sess[s].pc = "cfCycle"
    /\ sess' = [sess EXCEPT ![s] =
                  IF db.active_cycle = NoCycle THEN Idle("failed")
                  ELSE [@ EXCEPT !.cycle = db.active_cycle, !.pc = "cfInsert"]]
    /\ UNCHANGED <<db, OtherVars>>

\* the insert answered; selectedPlayer, totalHours and the completion that
\* passed the guard are the form's fields
CourseInserted(s) ==
    /\ sess[s].pc = "cfInsert"
    /\ \E selectedPlayer \in db.players, totalHours \in CourseHours,
          completion \in {c \in CoursePercents : c >= 60} :
          LET record == CourseRow(NextCourseId(db), selectedPlayer, sess[s].cycle,
                                  totalHours, completion, TRUE)
          IN  IF InsertAllAccepted(db, "courses", {record})
              THEN /\ db' = StoreInsert(db, "courses", record)
                   /\ sess' = [sess EXCEPT ![s] = Idle("ok")]
              ELSE /\ db' = db
                   /\ sess' = [sess EXCEPT ![s] = Idle("failed")]
    /\ UNCHANGED OtherVars

\* EditCourseModal.handleSubmit up to the update
EditCourse(s) ==
    /\ sess[s].pc = "idle"
    /\ \E course \in db.courses, completion \in CoursePercents :
          sess' = [sess EXCEPT ![s] =
                     IF completion < 60 THEN Idle("refused")
                     ELSE IF ~configured THEN Idle("ok")
                     ELSE Session("ecUpdate", "none", NoCycle, course.player_id,
                                  course.id, 0)]
    /\ UNCHANGED <<db, OtherVars>>

\* UPDATE courses SET total_hours, completion_percent WHERE id; its error is not read
CourseUpdated(s) ==
    /\ sess[s].pc = "ecUpdate"
    /\ \E hours \in CourseHours, completion \in {c \in CoursePercents : c >= 60} :
          db' = IF "courses" \in UpdatePolicies
                THEN [db EXCEPT !.courses =
                        {IF r.id = sess[s].target
                         THEN [r EXCEPT !.total_hours = hours,
                                        !.completion_percent = completion]
                         ELSE r : r \in @}]
                ELSE db
    /\ sess' = [sess EXCEPT ![s] = Idle("ok")]
    /\ UNCHANGED OtherVars

\* PointsForm.handleSubmit, category course, up to the cycles query
PointsCourse(s) ==
    /\ sess[s].pc = "idle"
    /\ db.players # {}
    /\ sess' = [sess EXCEPT ![s] =
                  IF ~configured THEN Idle("ok")
                  ELSE Session("pcCycle", "none", NoCycle, NoPlayer, 0, 0)]
    /\ UNCHANGED <<db, OtherVars>>

PointsCourseGotCycle(s) ==
    /\ sess[s].pc = "pcCycle"
    /\ sess' = [sess EXCEPT ![s] =
                  IF db.active_cycle = NoCycle THEN Idle("failed")
                  ELSE [@ EXCEPT !.cycle = db.active_cycle, !.pc = "pcInsert"]]
    /\ UNCHANGED <<db, OtherVars>>

\* the record names points, hours and completion_percentage: points is a
\* generated column and the other two do not exist
PointsCourseInserted(s) ==
    /\ sess[s].pc = "pcInsert"
    /\ \E selectedPlayer \in db.players, points \in {8, 10} :
          LET record == [player_id |-> selectedPlayer, cycle_id |-> sess[s].cycle,
                         points |-> points, created_at |-> 0, name |-> "Unnamed Course",
                         hours |-> points \div 4, completion_percentage |-> 100,
                         verified |-> TRUE]
          IN  IF DOMAIN record \subseteq CourseColumns
                 /\ InsertAllAccepted(db, "courses", {record})
              THEN /\ db' = StoreInsert(db, "courses", record)
                   /\ sess' = [sess EXCEPT ![s] = Idle("ok")]
              ELSE /\ db' = db
                   /\ sess' = [sess EXCEPT ![s] = Idle("failed")]
    /\ UNCHANGED OtherVars

InitCourse ==
    /\ db \in {[EmptyDb EXCEPT !.players = 1..n, !.active_cycle = c] :
                 n \in 1..NumPlayers, c \in {ActiveCycleId, NoCycle}}
    /\ configured \in BOOLEAN
    /\ entries = <<>>
    /\ isLoading = TRUE
    /\ error = "null"
    /\ inflight = 0
    /\ hookPc = "mount"
    /\ results = <<>>
    /\ selected = <<>>
    /\ scoring = IdleScoring
    /\ streaks = <<>>
    /\ sess = IdleSessions
    /\ champ = IdleChamp
    /\ clock = NoClock
    /\ auth = IdleAuth
    /\ form = IdleForm

NextCourse ==
    \/ PopulateCourse
    \/ \E s \in SessionIds :
        \/ SubmitCourse(s)
        \/ CourseGotCycle(s)
        \/ CourseInserted(s)
        \/ EditCourse(s)
        \/ CourseUpdated(s)
        \/ PointsCourse(s)
        \/ PointsCourseGotCycle(s)
        \/ PointsCourseInserted(s)

SpecCourse == InitCourse /\ [][NextCourse]_vars

(***************************************************************************)
(* Books: AddBookModal.handleSubmit, BookForm.handleSubmit and             *)
(* EditBookModal.handleSubmit.  A books row carries its id and the title   *)
(* that names its catalog entry; its points column is generated from       *)
(* pages_read.                                                             *)
(***************************************************************************)
MaxBooks == 2

BookPages == {9, 20}

\* books_library: name and points_per_10_pages
BooksLibrary ==
    {[name |-> 1, points_per_10_pages |-> 1], [name |-> 2, points_per_10_pages |-> 2]}

BookRow(id, p, c, title, pages, verified) ==
    [id |-> id, player_id |-> p, cycle_id |-> c, title |-> title, pages_read |-> pages,
     verified |-> verified]

NextBookId(d) == Cardinality(d.books) + 1

\* a row written to the store directly, verified left at its default
PopulateBook ==
    /\ \A s \in SessionIds : sess[s].pc = "idle"
    /\ Cardinality(db.books) < MaxBooks
    /\ \E p \in db.players, book \in BooksLibrary, pages \in BookPages :
          db' = StoreInsert(db, "books",
                            BookRow(NextBookId(db), p, ActiveCycleId, book.name, pages,
                                    FALSE))
    /\ UNCHANGED <<sess, OtherVars>>

\* AddBookModal.handleSubmit up to the cycles query
AddBook(s) ==
    /\ sess[s].pc = "idle"
    /\ db.players # {}
    /\ sess' = [sess EXCEPT ![s] =
                  IF ~configured THEN Idle("ok")
                  ELSE Session("bkCycle", "none", NoCycle, NoPlayer, 0, 0)]
    /\ UNCHANGED <<db, OtherVars>>

AddBookGotCycle(s) ==
    /\ sess[s].pc = "bkCycle"
    /\ sess' = [sess EXCEPT ![s] =
                  IF db.active_cycle = NoCycle THEN Idle("failed")
                  ELSE [@ EXCEPT !.cycle = db.active_cycle, !.pc = "bkInsert"]]
    /\ UNCHANGED <<db, OtherVars>>

\* the insert answered; its error is not read, so the modal closes either way
AddBookInserted(s) ==
    /\ sess[s].pc = "bkInsert"
    /\ \E userId \in db.players, selectedBook \in BooksLibrary, pagesRead \in BookPages :
          LET record == BookRow(NextBookId(db), userId, sess[s].cycle, selectedBook.name,
                                pagesRead, FALSE)
          IN  db' = IF Cardinality(db.books) < MaxBooks
                       /\ InsertAllAccepted(db, "books", {record})
                    THEN StoreInsert(db, "books", record)
                    ELSE db
    /\ sess' = [sess EXCEPT ![s] = Idle("ok")]
    /\ UNCHANGED OtherVars

\* BookForm.handleSubmit up to the cycles query
LogBook(s) ==
    /\ sess[s].pc = "idle"
    /\ db.players # {}
    /\ sess' = [sess EXCEPT ![s] =
                  IF ~configured THEN Idle("ok")
                  ELSE Session("bfCycle", "none", NoCycle, NoPlayer, 0, 0)]
    /\ UNCHANGED <<db, OtherVars>>

LogBookGotCycle(s) ==
    /\ sess[s].pc = "bfCycle"
    /\ sess' = [sess EXCEPT ![s] =
                  IF db.active_cycle = NoCycle THEN Idle("failed")
                  ELSE [@ EXCEPT !.cycle = db.active_cycle, !.pc = "bfInsert"]]
    /\ UNCHANGED <<db, OtherVars>>

\* the insert answered: stored, or an error and the failure message
LogBookInserted(s) ==
    /\ sess[s].pc = "bfInsert"
    /\ \E selectedPlayer \in db.players, book \in BooksLibrary, pagesRead \in BookPages :
          LET record == BookRow(NextBookId(db), selectedPlayer, sess[s].cycle, book.name,
                                pagesRead, TRUE)
          IN  IF Cardinality(db.books) < MaxBooks
                 /\ InsertAllAccepted(db, "books", {record})
              THEN /\ db' = StoreInsert(db, "books", record)
                   /\ sess' = [sess EXCEPT ![s] = Idle("ok")]
              ELSE /\ db' = db
                   /\ sess' = [sess EXCEPT ![s] = Idle("failed")]
    /\ UNCHANGED OtherVars

\* EditBookModal.handleSubmit up to the update
EditBook(s) ==
    /\ sess[s].pc = "idle"
    /\ \E book \in db.books :
          sess' = [sess EXCEPT ![s] =
                     IF ~configured THEN Idle("ok")
                     ELSE Session("ebUpdate", "none", NoCycle, book.player_id, book.id, 0)]
    /\ UNCHANGED <<db, OtherVars>>

\* UPDATE books SET pages_read WHERE id: the rows the session's policies let it
\* update; the error is not read
BookUpdated(s) ==
    /\ sess[s].pc = "ebUpdate"
    /\ \E pagesRead \in BookPages :
          db' = IF "books" \in UpdatePolicies
                THEN [db EXCEPT !.books =
                        {IF r.id = sess[s].target THEN [r EXCEPT !.pages_read = pagesRead]
                         ELSE r : r \in @}]
                ELSE db
    /\ sess' = [sess EXCEPT ![s] = Idle("ok")]
    /\ UNCHANGED OtherVars

InitBook == InitCourse

NextBook ==
    \/ PopulateBook
    \/ \E s \in SessionIds :
        \/ AddBook(s)
        \/ AddBookGotCycle(s)
        \/ AddBookInserted(s)
        \/ LogBook(s)
        \/ LogBookGotCycle(s)
        \/ LogBookInserted(s)
        \/ EditBook(s)
        \/ BookUpdated(s)

SpecBook == InitBook /\ [][NextBook]_vars

(***************************************************************************)
(* Presentations: PresentationForm, PointsForm (category presentation)    *)
(* and EditPresentationModal.  A row keeps the columns that carry the      *)
(* presenters, the solo flag, the order and the points; topic stands for   *)
(* the free-text columns, which no handler reads when it computes points.  *)
(***************************************************************************)
MaxPresentations == 2

FIRST_SOLO_PRESENTATION == 30
SECOND_SOLO_PRESENTATION == 20
FIRST_PAIR_PRESENTATION == 20
SECOND_PAIR_PRESENTATION == 15

PresentationTopics == {1, 2}

\* the points a PointsForm user can enter: the default 10, and a table value
PointsFormPoints == {10, 30}

PresentationRow(id, p, second, c, topic, is_solo, order, points) ==
    [id |-> id, player_id |-> p, second_presenter_id |-> second, cycle_id |-> c,
     topic |-> topic, is_solo |-> is_solo, presentation_order |-> order,
     points |-> points]

\* presentations.id DEFAULT uuid_generate_v4(): a value no stored row has
NextPresentationId(d) ==
    CHOOSE i \in 1..(Cardinality(d.presentations) + 1) :
        \A r \in d.presentations : r.id # i

\* the inserts a running handler may still make
PendingPresentations ==
    Cardinality({s \in SessionIds : sess[s].pc \in {"prCycle", "prFirst", "ppCycle", "ppInsert"}})
    + Cardinality({s \in SessionIds : sess[s].pc \in {"prCycle", "prFirst", "prSecond"}
                                       /\ sess[s].target # NoPlayer})

\* PresentationForm.handleSubmit up to the cycles query; isSolo and
\* firstPresenterPoints are the values of the render the handler closed over
SubmitPresentation(s) ==
    /\ sess[s].pc = "idle"
    /\ \E firstPresenter \in db.players,
          secondPresenter \in (db.players \cup {NoPlayer}) :
          LET isSolo == secondPresenter = NoPlayer
              firstPresenterPoints ==
                  IF isSolo THEN FIRST_SOLO_PRESENTATION ELSE FIRST_PAIR_PRESENTATION
          IN  /\ secondPresenter # firstPresenter
              /\ Cardinality(db.presentations) + PendingPresentations
                   + (IF isSolo THEN 1 ELSE 2) <= MaxPresentations
              /\ sess' = [sess EXCEPT ![s] =
                            IF ~configured THEN Idle("ok")
                            ELSE Session("prCycle", "none", NoCycle, firstPresenter,
                                         secondPresenter, firstPresenterPoints)]
    /\ UNCHANGED <<db, OtherVars>>

PresentationGotCycle(s) ==
    /\ sess[s].pc = "prCycle"
    /\ sess' = [sess EXCEPT ![s] =
                  IF db.active_cycle = NoCycle THEN Idle("failed")
                  ELSE [@ EXCEPT !.cycle = db.active_cycle, !.pc = "prFirst"]]
    /\ UNCHANGED <<db, OtherVars>>

\* the first presenter's insert settles; a pair goes on to the second insert
FirstPresenterInserted(s) ==
    /\ sess[s].pc = "prFirst"
    /\ LET secondPresenter == sess[s].target
           row == PresentationRow(NextPresentationId(db), sess[s].player, secondPresenter,
                                  sess[s].cycle, 1, secondPresenter = NoPlayer, 1,
                                  sess[s].points)
       IN  IF InsertAllAccepted(db, "presentations", {row})
           THEN /\ db' = StoreInsert(db, "presentations", row)
                /\ sess' = [sess EXCEPT ![s] =
                              IF secondPresenter = NoPlayer THEN Idle("ok")
                              ELSE [@ EXCEPT !.pc = "prSecond"]]
           ELSE /\ db' = db
                /\ sess' = [sess EXCEPT ![s] = Idle("failed")]
    /\ UNCHANGED OtherVars

\* the second presenter's insert comes back with secondError, which is thrown;
\* the first presenter's record stays
SecondPresenterError(s) ==
    /\ sess[s].pc = "prSecond"
    /\ sess' = [sess EXCEPT ![s] = Idle("failed")]
    /\ UNCHANGED <<db, OtherVars>>

SecondPresenterInserted(s) ==
    /\ sess[s].pc = "prSecond"
    /\ LET secondPresenterPoints == SECOND_PAIR_PRESENTATION
           row == PresentationRow(NextPresentationId(db), sess[s].target, sess[s].player,
                                  sess[s].cycle, 1, FALSE, 2, secondPresenterPoints)
       IN  IF InsertAllAccepted(db, "presentations", {row})
           THEN /\ db' = StoreInsert(db, "presentations", row)
                /\ sess' = [sess EXCEPT ![s] = Idle("ok")]
           ELSE /\ db' = db
                /\ sess' = [sess EXCEPT ![s] = Idle("failed")]
    /\ UNCHANGED OtherVars

\* PointsForm.handleSubmit, category presentation, up to the cycles query
PointsPresentation(s) ==
    /\ sess[s].pc = "idle"
    /\ db.players # {}
    /\ Cardinality(db.presentations) + PendingPresentations < MaxPresentations
    /\ sess' = [sess EXCEPT ![s] =
                  IF ~configured THEN Idle("ok")
                  ELSE Session("ppCycle", "none", NoCycle, NoPlayer, 0, 0)]
    /\ UNCHANGED <<db, OtherVars>>

PointsPresentationGotCycle(s) ==
    /\ sess[s].pc = "ppCycle"
    /\ sess' = [sess EXCEPT ![s] =
                  IF db.active_cycle = NoCycle THEN Idle("failed")
                  ELSE [@ EXCEPT !.cycle = db.active_cycle, !.pc = "ppInsert"]]
    /\ UNCHANGED <<db, OtherVars>>

\* the record names is_solo: true and no presentation_order nor
\* second_presenter_id, which take their defaults 1 and NULL; points is the
\* number typed into the form
PointsPresentationInserted(s) ==
    /\ sess[s].pc = "ppInsert"
    /\ \E selectedPlayer \in db.players, points \in PointsFormPoints :
          LET row == PresentationRow(NextPresentationId(db), selectedPlayer, NoPlayer,
                                     sess[s].cycle, 2, TRUE, 1, points)
          IN  IF InsertAllAccepted(db, "presentations", {row})
              THEN /\ db' = StoreInsert(db, "presentations", row)
                   /\ sess' = [sess EXCEPT ![s] = Idle("ok")]
              ELSE /\ db' = db
                   /\ sess' = [sess EXCEPT ![s] = Idle("failed")]
    /\ UNCHANGED OtherVars

\* EditPresentationModal.handleSubmit up to the update
EditPresentation(s) ==
    /\ sess[s].pc = "idle"
    /\ \E presentation \in db.presentations :
          sess' = [sess EXCEPT ![s] =
                     IF ~configured THEN Idle("ok")
                     ELSE Session("prUpdate", "none", NoCycle, NoPlayer,
                                  presentation.id, 0)]
    /\ UNCHANGED <<db, OtherVars>>

\* the update names topic, date and the three links, never points
PresentationUpdated(s) ==
    /\ sess[s].pc = "prUpdate"
    /\ \E topic \in PresentationTopics :
          db' = IF "presentations" \in UpdatePolicies
                THEN [db EXCEPT !.presentations =
                        {IF r.id = sess[s].target THEN [r EXCEPT !.topic = topic]
                         ELSE r : r \in @}]
                ELSE db
    /\ sess' = [sess EXCEPT ![s] = Idle("ok")]
    /\ UNCHANGED OtherVars

InitPresentation == InitCourse

NextPresentation ==
    \E s \in SessionIds :
        \/ SubmitPresentation(s)
        \/ PresentationGotCycle(s)
        \/ FirstPresenterInserted(s)
        \/ SecondPresenterInserted(s)
        \/ SecondPresenterError(s)
        \/ PointsPresentation(s)
        \/ PointsPresentationGotCycle(s)
        \/ PointsPresentationInserted(s)
        \/ EditPresentation(s)
        \/ PresentationUpdated(s)

SpecPresentation == InitPresentation /\ [][NextPresentation]_vars

(***************************************************************************)
(* ActivityForm and applyDoublePoints used from one admin session, in a    *)
(* store whose earlier cycle left an activity and no participation.        *)
(***************************************************************************)
InitParticipation ==
    /\ InitActivity
    /\ db.activity_participations = {}

NextParticipation ==
    \/ SubmitActivity(1)
    \/ ActivityGotCycle(1)
    \/ ActivityGotExistingDouble(1)
    \/ ActivityInserted(1)
    \/ ParticipationsInserted(1)
    \/ ApplyDoublePoints(1)
    \/ ApplyGotParticipation(1)
    \/ ApplyGotCycle(1)
    \/ ApplyGotExisting(1)
    \/ ApplyUpdated(1)

SpecParticipation == InitParticipation /\ [][NextParticipation]_vars

(***************************************************************************)
(* Blogs added and edited: AddBlogModal, the user's EditBlogModal and the  *)
(* admin's EditBlogModal.  A session's points slot carries the url typed   *)
(* into the user's edit form.                                              *)
(***************************************************************************)
\* UPDATE blogs SET name, url WHERE id: the table after the statement, which
\* is the table before it when a policy or the UNIQUE constraint refuses it
BlogsAfterUpdate(d, id, url) ==
    LET updated == {IF r.id = id THEN [r EXCEPT !.url = url] ELSE r : r \in d.blogs}
    IN  IF "blogs" \in UpdatePolicies /\ BlogUrlUnique(updated)
        THEN updated ELSE d.blogs

\* the statement came back with an error
BlogUpdateRejected(d, id, url) ==
    LET updated == {IF r.id = id THEN [r EXCEPT !.url = url] ELSE r : r \in d.blogs}
    IN  ~BlogUrlUnique(updated)

\* user/EditBlogModal.handleSubmit up to the duplicate-url query
EditBlog(s) ==
    /\ sess[s].pc = "idle"
    /\ \E blog \in db.blogs, url \in BlogUrls :
          sess' = [sess EXCEPT ![s] =
                     IF ~configured THEN Idle("ok")
                     ELSE Session("ebExisting", "none", NoCycle, blog.player_id,
                                  blog.id, url)]
    /\ UNCHANGED <<db, OtherVars>>

\* the player's other blogs with this url answered
EditBlogGotExisting(s) ==
    /\ sess[s].pc = "ebExisting"
    /\ LET existing == {r \in RowsOf(db.blogs, sess[s].player) :
                            r.url = sess[s].points /\ r.id # sess[s].target}
       IN  sess' = [sess EXCEPT ![s] =
                      IF existing # {} THEN Idle("duplicate")
                      ELSE [@ EXCEPT !.pc = "ebUpdate"]]
    /\ UNCHANGED <<db, OtherVars>>

\* the update answered; its error is not read, so the modal closes either way
BlogUpdated(s) ==
    /\ sess[s].pc = "ebUpdate"
    /\ db' = [db EXCEPT !.blogs = BlogsAfterUpdate(db, sess[s].target, sess[s].points)]
    /\ sess' = [sess EXCEPT ![s] = Idle("ok")]
    /\ UNCHANGED OtherVars

\* admin/modals/EditBlogModal.handleSubmit up to the update
AdminEditBlog(s) ==
    /\ sess[s].pc = "idle"
    /\ \E blog \in db.blogs :
          sess' = [sess EXCEPT ![s] =
                     IF ~configured THEN Idle("ok")
                     ELSE Session("aeUpdate", "none", NoCycle, NoPlayer, blog.id, 0)]
    /\ UNCHANGED <<db, OtherVars>>

\* the update answered; updateError is thrown
AdminBlogUpdated(s) ==
    /\ sess[s].pc = "aeUpdate"
    /\ \E url \in BlogUrls :
          /\ db' = [db EXCEPT !.blogs = BlogsAfterUpdate(db, sess[s].target, url)]
          /\ sess' = [sess EXCEPT ![s] =
                        IF BlogUpdateRejected(db, sess[s].target, url)
                        THEN Idle("failed") ELSE Idle("ok")]
    /\ UNCHANGED OtherVars

NextBlogEdit ==
    \E s \in SessionIds :
        \/ AddBlog(s)
        \/ AddBlogGotExisting(s)
        \/ AddBlogGotUserBlogs(s)
        \/ AddBlogGotCycle(s)
        \/ AddBlogInserted(s)
        \/ EditBlog(s)
        \/ EditBlogGotExisting(s)
        \/ BlogUpdated(s)
        \/ AdminEditBlog(s)
        \/ AdminBlogUpdated(s)

SpecBlogEdit == InitBlog /\ [][NextBlogEdit]_vars

(***************************************************************************)
(* Penalties: PointsForm.handleSubmit with category "penalty", mounted     *)
(* with isNegative.                                                        *)
(***************************************************************************)
MaxPenalties == 2

\* what the points state can hold after typing: parseInt(value) || 0
PenaltyInputs == {-2, 0, 3}

Abs(n) == IF n < 0 THEN -n ELSE n

\* the record's points, as typed
PointsAsTyped(isNegative, points) == points

\* points: isNegative ? -Math.abs(points) : points
RecordPoints(isNegative, points) == IF isNegative THEN -Abs(points) ELSE points

NextPenaltyId(d) ==
    CHOOSE i \in 1..(Cardinality(d.penalties) + 1) : \A r \in d.penalties : r.id # i

PendingPenalties ==
    Cardinality({s \in SessionIds : sess[s].pc \in {"pnCycle", "pnInsert"}})

\* handleSubmit up to the cycles query; points === 0 returns at once
PointsPenalty(s) ==
    /\ sess[s].pc = "idle"
    /\ Cardinality(db.penalties) + PendingPenalties < MaxPenalties
    /\ \E selectedPlayer \in db.players, points \in PenaltyInputs :
          sess' = [sess EXCEPT ![s] =
                     IF points = 0 THEN Idle("none")
                     ELSE IF ~configured THEN Idle("ok")
                     ELSE Session("pnCycle", "none", NoCycle, selectedPlayer, 0, points)]
    /\ UNCHANGED <<db, OtherVars>>

PointsPenaltyGotCycle(s) ==
    /\ sess[s].pc = "pnCycle"
    /\ sess' = [sess EXCEPT ![s] =
                  IF db.active_cycle = NoCycle THEN Idle("failed")
                  ELSE [@ EXCEPT !.cycle = db.active_cycle, !.pc = "pnInsert"]]
    /\ UNCHANGED <<db, OtherVars>>

\* the record: player_id, cycle_id, points, created_at, reason 'other', description
PointsPenaltyInserted(s) ==
    /\ sess[s].pc = "pnInsert"
    /\ LET record == [id |-> NextPenaltyId(db), player_id |-> sess[s].player,
                      cycle_id |-> sess[s].cycle, reason |-> "other",
                      points |-> RecordPoints(TRUE, sess[s].points)]
       IN  IF record.reason \in {"absences", "vacation_compliance", "other"}
              /\ InsertAllAccepted(db, "penalties", {record})
           THEN /\ db' = StoreInsert(db, "penalties", record)
                /\ sess' = [sess EXCEPT ![s] = Idle("ok")]
           ELSE /\ db' = db
                /\ sess' = [sess EXCEPT ![s] = Idle("failed")]
    /\ UNCHANGED OtherVars

NextPenalty ==
    \E s \in SessionIds :
        \/ PointsPenalty(s)
        \/ PointsPenaltyGotCycle(s)
        \/ PointsPenaltyInserted(s)

SpecPenalty == InitBlog /\ [][NextPenalty]_vars

(***************************************************************************)
(* The check-in date: getLastWednesday and formatDate as CheckInPage,      *)
(* CheckInCard and AttendanceForm run them at render.  A Date is the       *)
(* number of hours since the epoch in UTC; the browser is tz hours east of *)
(* UTC.  Day numbers count from a Wednesday, so a day is a Wednesday       *)
(* exactly when it is a multiple of 7.                                     *)
(***************************************************************************)
ClockDays == 7..13
ClockHours == {0, 23}
TimeZones == {-5, 0, 2}

\* new Date() on local day `day` at local hour `hour`
NewDate(c) == 24 * c.day + c.hour - c.tz

\* the local calendar day of a Date: getDate() and its month and year
LocalDay(date, tz) == (date + tz) \div 24

\* Date.prototype.getDay(): 0 = Sunday, 3 = Wednesday
GetDay(date, tz) == (LocalDay(date, tz) + 3) % 7

\* setDate(getDate() - daysAgo); setHours(0, 0, 0, 0): local midnight
getLastWednesday(c) ==
    LET today == NewDate(c)
        dayOfWeek == GetDay(today, c.tz)
        daysAgo == (dayOfWeek + 7 - 3) % 7
    IN  24 * (LocalDay(today, c.tz) - daysAgo) - c.tz

\* date.toISOString().split('T')[0]: the calendar day in UTC
formatDate(date, tz) == date \div 24

lastWednesdayStr == formatDate(getLastWednesday(clock), clock.tz)

\* CheckInPage rendered now, and handleCheckIn up to the cycles query
RenderedPageCheckIn(s) ==
    /\ sess[s].pc = "idle"
    /\ \E selectedPlayer \in db.players :
          sess' = [sess EXCEPT ![s] =
                     IF ~configured THEN Idle("ok")
                     ELSE Session("ciCycle", "none", NoCycle, selectedPlayer,
                                  lastWednesdayStr, 0)]
    /\ UNCHANGED <<db, OtherVars>>

\* CheckInCard rendered now, and handleCheckIn up to the cycles query
RenderedCardCheckIn(s) ==
    /\ sess[s].pc = "idle"
    /\ \E userId \in db.players :
          sess' = [sess EXCEPT ![s] =
                     IF ~configured THEN Idle("none")
                     ELSE Session("ccCycle", "none", NoCycle, userId,
                                  lastWednesdayStr, 0)]
    /\ UNCHANGED <<db, OtherVars>>

\* AttendanceForm rendered now, and handleSubmit up to the cycles query
RenderedLogAttendance(s) ==
    /\ sess[s].pc = "idle"
    /\ db.players # {}
    /\ sess' = [sess EXCEPT ![s] =
                  IF ~configured THEN Idle("ok")
                  ELSE Session("alCycle", "none", NoCycle, NoPlayer, lastWednesdayStr, 0)]
    /\ UNCHANGED <<db, OtherVars>>

RenderedAttendanceGotCycle(s) ==
    /\ sess[s].pc = "alCycle"
    /\ sess' = [sess EXCEPT ![s] =
                  IF db.active_cycle = NoCycle THEN Idle("failed")
                  ELSE [@ EXCEPT !.cycle = db.active_cycle, !.pc = "alInsert"]]
    /\ UNCHANGED <<db, OtherVars>>

\* the records of selectedPlayers, inserted in one statement
RenderedAttendanceInserted(s) ==
    /\ sess[s].pc = "alInsert"
    /\ \E selectedPlayers \in (SUBSET db.players) \ {{}} :
       \E earlyBirdPlayers \in SUBSET selectedPlayers :
          LET records == {AttendanceRow(p, sess[s].cycle, sess[s].target,
                                        p \in earlyBirdPlayers) : p \in selectedPlayers}
          IN  IF InsertAllAccepted(db, "attendance", records)
              THEN /\ db' = [db EXCEPT !.attendance = @ \cup records]
                   /\ sess' = [sess EXCEPT ![s] = Idle("ok")]
              ELSE /\ db' = db
                   /\ sess' = [sess EXCEPT ![s] = Idle("failed")]
    /\ UNCHANGED OtherVars

InitCheckInDate ==
    /\ db \in {[EmptyDb EXCEPT !.players = 1..n, !.active_cycle = ActiveCycleId] :
                 n \in 1..NumPlayers}
    /\ configured = TRUE
    /\ entries = <<>>
    /\ isLoading = TRUE
    /\ error = "null"
    /\ inflight = 0
    /\ hookPc = "mount"
    /\ results = <<>>
    /\ selected = <<>>
    /\ scoring = IdleScoring
    /\ streaks = <<>>
    /\ sess = IdleSessions
    /\ champ = IdleChamp
    /\ clock \in [day : ClockDays, hour : ClockHours, tz : TimeZones]
    /\ auth = IdleAuth
    /\ form = IdleForm

NextCheckInDate ==
    \/ RenderedPageCheckIn(1)
    \/ PageGotCycle(1)
    \/ PageInserted(1)
    \/ RenderedCardCheckIn(1)
    \/ CardGotCycle(1)
    \/ CardInserted(1)
    \/ RenderedLogAttendance(1)
    \/ RenderedAttendanceGotCycle(1)
    \/ RenderedAttendanceInserted(1)

SpecCheckInDate == InitCheckInDate /\ [][NextCheckInDate]_vars

(***************************************************************************)
(* useAuth.  auth.user, auth.playerData and auth.isLoading are the hook's  *)
(* state; auth.session is the user the Supabase client is signed in as;    *)
(* auth.calls are the requests the hook is awaiting, each with the user it *)
(* was made for; auth.events are the auth state changes the client has not *)
(* yet handed to the hook's listener.  Auth user u owns player row u.      *)
(***************************************************************************)
AuthUsers == {1, 2}
Admins == {1}
MaxCalls == 2
MaxEvents == 2

Call(kind, u) == [kind |-> kind, user |-> u]

RemoveAt(seq, i) == SubSeq(seq, 1, i - 1) \o SubSeq(seq, i + 1, Len(seq))

\* isAuthenticated: !!user && !!playerData
isAuthenticated == auth.user # NoUser /\ auth.playerData # NoPlayer

\* isAdmin: playerData?.is_admin || false
isAdmin == auth.playerData # NoPlayer /\ auth.playerData \in Admins

\* the mount effect: initAuth up to getSession, and the listener subscribed
AuthMount ==
    /\ ~auth.mounted
    /\ auth' = IF ~configured
               THEN [auth EXCEPT !.mounted = TRUE, !.isLoading = FALSE]
               ELSE [auth EXCEPT !.mounted = TRUE,
                                 !.calls = Append(@, Call("getSession", NoUser))]
    /\ UNCHANGED <<db, configured, entries, isLoading, error, inflight, hookPc,
                   results, selected, scoring, streaks, sess, champ, clock, form>>

\* getSession answered: setUser and fetchPlayerData, or the finally block
GotSession ==
    /\ \E i \in 1..Len(auth.calls) :
          /\ auth.calls[i].kind = "getSession"
          /\ auth' = IF auth.session # NoUser
                     THEN [auth EXCEPT !.user = auth.session,
                                       !.calls = Append(RemoveAt(@, i),
                                                        Call("fetch", auth.session))]
                     ELSE [auth EXCEPT !.isLoading = FALSE,
                                       !.calls = RemoveAt(@, i)]
    /\ UNCHANGED <<db, configured, entries, isLoading, error, inflight, hookPc,
                   results, selected, scoring, streaks, sess, champ, clock, form>>

\* signIn up to signInWithPassword
SignIn ==
    /\ auth.mounted
    /\ \E u \in AuthUsers :
          auth' = IF ~configured
                  THEN [auth EXCEPT !.isLoading = FALSE]
                  ELSE IF Len(auth.calls) < MaxCalls
                  THEN [auth EXCEPT !.isLoading = TRUE,
                                    !.calls = Append(@, Call("signIn", u))]
                  ELSE auth
    /\ UNCHANGED <<db, configured, entries, isLoading, error, inflight, hookPc,
                   results, selected, scoring, streaks, sess, champ, clock, form>>

\* signInWithPassword answered with the user: the client is signed in and
\* announces it, the hook sets the user and calls fetchPlayerData
SignInAccepted ==
    /\ Len(auth.events) < MaxEvents
    /\ \E i \in 1..Len(auth.calls) :
          /\ auth.calls[i].kind = "signIn"
          /\ auth' = [auth EXCEPT !.session = auth.calls[i].user,
                                  !.events = Append(@, auth.calls[i].user),
                                  !.user = auth.calls[i].user,
                                  !.calls = Append(RemoveAt(@, i),
                                                   Call("fetch", auth.calls[i].user))]
    /\ UNCHANGED <<db, configured, entries, isLoading, error, inflight, hookPc,
                   results, selected, scoring, streaks, sess, champ, clock, form>>

\* signInWithPassword answered with authError: catch
SignInRefused ==
    /\ \E i \in 1..Len(auth.calls) :
          /\ auth.calls[i].kind = "signIn"
          /\ auth' = [auth EXCEPT !.isLoading = FALSE, !.calls = RemoveAt(@, i)]
    /\ UNCHANGED <<db, configured, entries, isLoading, error, inflight, hookPc,
                   results, selected, scoring, streaks, sess, champ, clock, form>>

\* signOut: nothing is set before supabase.auth.signOut() answers; then the
\* client has no session and announces it, and the hook clears its state
SignOut ==
    /\ auth.mounted
    /\ configured
    /\ Len(auth.events) < MaxEvents
    /\ auth' = [auth EXCEPT !.session = NoUser, !.events = Append(@, NoUser),
                            !.user = NoUser, !.playerData = NoPlayer]
    /\ UNCHANGED <<db, configured, entries, isLoading, error, inflight, hookPc,
                   results, selected, scoring, streaks, sess, champ, clock, form>>

\* the onAuthStateChange listener up to its await
AuthStateChanged ==
    /\ auth.mounted
    /\ auth.events # <<>>
    /\ LET user == Head(auth.events)
       IN  IF user # NoUser
           THEN /\ Len(auth.calls) < MaxCalls
                /\ auth' = [auth EXCEPT !.events = Tail(@), !.isLoading = TRUE,
                                        !.user = user,
                                        !.calls = Append(@, Call("fetch", user))]
           ELSE auth' = [auth EXCEPT !.events = Tail(@), !.user = NoUser,
                                     !.playerData = NoPlayer, !.isLoading = FALSE]
    /\ UNCHANGED <<db, configured, entries, isLoading, error, inflight, hookPc,
                   results, selected, scoring, streaks, sess, champ, clock, form>>

\* fetchPlayerData's query answered with the row of authUser, and the caller
\* went on to setIsLoading(false)
PlayerDataFetched ==
    /\ \E i \in 1..Len(auth.calls) :
          /\ auth.calls[i].kind = "fetch"
          /\ auth.calls[i].user \in db.players
          /\ auth' = [auth EXCEPT !.playerData = auth.calls[i].user,
                                  !.isLoading = FALSE,
                                  !.calls = RemoveAt(@, i)]
    /\ UNCHANGED <<db, configured, entries, isLoading, error, inflight, hookPc,
                   results, selected, scoring, streaks, sess, champ, clock, form>>

\* the query answered with PGRST116, no row: up to supabase.auth.signOut()
PlayerDataMissing ==
    /\ \E i \in 1..Len(auth.calls) :
          /\ auth.calls[i].kind = "fetch"
          /\ auth.calls[i].user \notin db.players
          /\ auth' = [auth EXCEPT !.calls = Append(RemoveAt(@, i),
                                                   Call("orphan", auth.calls[i].user))]
    /\ UNCHANGED <<db, configured, entries, isLoading, error, inflight, hookPc,
                   results, selected, scoring, streaks, sess, champ, clock, form>>

\* the orphaned session is signed out: setUser(null), setPlayerData(null),
\* the catch block, and the caller's setIsLoading(false)
OrphanSignedOut ==
    /\ Len(auth.events) < MaxEvents
    /\ \E i \in 1..Len(auth.calls) :
          /\ auth.calls[i].kind = "orphan"
          /\ auth' = [auth EXCEPT !.session = NoUser, !.events = Append(@, NoUser),
                                  !.user = NoUser, !.playerData = NoPlayer,
                                  !.isLoading = FALSE, !.calls = RemoveAt(@, i)]
    /\ UNCHANGED <<db, configured, entries, isLoading, error, inflight, hookPc,
                   results, selected, scoring, streaks, sess, champ, clock, form>>

\* the query answered with another error: catch, setPlayerData(null)
PlayerDataError ==
    /\ \E i \in 1..Len(auth.calls) :
          /\ auth.calls[i].kind = "fetch"
          /\ auth' = [auth EXCEPT !.playerData = NoPlayer, !.isLoading = FALSE,
                                  !.calls = RemoveAt(@, i)]
    /\ UNCHANGED <<db, configured, entries, isLoading, error, inflight, hookPc,
                   results, selected, scoring, streaks, sess, champ, clock, form>>

InitAuth ==
    /\ db \in {[EmptyDb EXCEPT !.players = 1..n, !.active_cycle = ActiveCycleId] :
                 n \in 1..NumPlayers}
    /\ configured \in BOOLEAN
    /\ entries = <<>>
    /\ isLoading = TRUE
    /\ error = "null"
    /\ inflight = 0
    /\ hookPc = "mount"
    /\ results = <<>>
    /\ selected = <<>>
    /\ scoring = IdleScoring
    /\ streaks = <<>>
    /\ sess = IdleSessions
    /\ champ = IdleChamp
    /\ clock = NoClock
    /\ \E persisted \in {NoUser} \cup AuthUsers :
          auth = [IdleAuth EXCEPT !.session = IF configured THEN persisted ELSE NoUser]
    /\ form = IdleForm

NextAuth ==
    \/ AuthMount
    \/ GotSession
    \/ SignIn
    \/ SignInAccepted
    \/ SignInRefused
    \/ SignOut
    \/ AuthStateChanged
    \/ PlayerDataFetched
    \/ PlayerDataMissing
    \/ OrphanSignedOut
    \/ PlayerDataError

SpecAuth == InitAuth /\ [][NextAuth]_vars

(***************************************************************************)
(* ActivityForm as the admin uses it: the toggles, and handleSubmit, which *)
(* works on the state of the render it was called from while the toggles   *)
(* stay usable.  Player 1 used double points in an earlier activity.       *)
(***************************************************************************)
MaxSubmissions == 1

FormFrame ==
    UNCHANGED <<configured, entries, isLoading, error, inflight, hookPc, results,
                selected, scoring, streaks, sess, champ, clock, auth>>

\* onClick={() => setSelectedActivity(activity.id)}
SelectActivity ==
    /\ ~form.selectedActivity
    /\ form' = [form EXCEPT !.selectedActivity = TRUE]
    /\ db' = db
    /\ FormFrame

\* toggleAttendee that keeps topPerformer and doublePointsPlayer
toggleAttendeeNoClear(playerId) ==
    IF playerId \in form.attendees
    THEN [form EXCEPT !.attendees = @ \ {playerId}]
    ELSE [form EXCEPT !.attendees = @ \cup {playerId}]

toggleAttendee(playerId) ==
    IF playerId \in form.attendees
    THEN [form EXCEPT !.attendees = @ \ {playerId},
                      !.topPerformer = IF @ = playerId THEN NoPlayer ELSE @,
                      !.doublePointsPlayer = IF @ = playerId THEN NoPlayer ELSE @]
    ELSE [form EXCEPT !.attendees = @ \cup {playerId}]

ToggleAttendee ==
    /\ \E playerId \in db.players : form' = toggleAttendee(playerId)
    /\ db' = db
    /\ FormFrame

\* the star button, rendered for attending players only
ToggleTopPerformer ==
    /\ \E playerId \in form.attendees :
          form' = [form EXCEPT !.topPerformer =
                                  IF @ = playerId THEN NoPlayer ELSE playerId]
    /\ db' = db
    /\ FormFrame

\* toggleDoublePoints, its button rendered for attending players only
ToggleDoublePoints ==
    /\ \E playerId \in form.attendees :
          form' = [form EXCEPT !.doublePointsPlayer =
                                  IF @ = playerId THEN NoPlayer ELSE playerId]
    /\ db' = db
    /\ FormFrame

\* "Reset form" and the finally block
FormReset ==
    [form EXCEPT !.selectedActivity = FALSE, !.attendees = {},
                 !.topPerformer = NoPlayer, !.doublePointsPlayer = NoPlayer,
                 !.isSubmitting = FALSE, !.pc = "edit", !.submitted = NoSubmission]

\* the catch block or the early return, and setIsSubmitting(false)
FormKept == [form EXCEPT !.isSubmitting = FALSE, !.pc = "edit", !.submitted = NoSubmission]

\* handleSubmit up to the cycles query; the button is disabled while submitting
FormSubmit ==
    /\ form.pc = "edit"
    /\ ~form.isSubmitting
    /\ form.selectedActivity
    /\ form.attendees # {}
    /\ Cardinality(db.activities) < Cardinality(CycleIds) + MaxSubmissions
    /\ form' = IF ~configured THEN FormReset
               ELSE [form EXCEPT !.isSubmitting = TRUE, !.pc = "fmCycle",
                                 !.submitted =
                                    [attendees |-> form.attendees,
                                     topPerformer |-> form.topPerformer,
                                     doublePointsPlayer |-> form.doublePointsPlayer,
                                     cycle |-> NoCycle, activity |-> 0]]
    /\ db' = db
    /\ FormFrame

FormGotCycle ==
    /\ form.pc = "fmCycle"
    /\ form' = IF db.active_cycle = NoCycle THEN FormKept
               ELSE [form EXCEPT !.submitted.cycle = db.active_cycle,
                                 !.pc = IF form.submitted.doublePointsPlayer # NoPlayer
                                        THEN "fmCheck" ELSE "fmActivity"]
    /\ db' = db
    /\ FormFrame

FormGotExistingDouble ==
    /\ form.pc = "fmCheck"
    /\ form' = IF ExistingDouble(db, form.submitted.doublePointsPlayer) # {}
               THEN FormKept
               ELSE [form EXCEPT !.pc = "fmActivity"]
    /\ db' = db
    /\ FormFrame

FormActivityInserted ==
    /\ form.pc = "fmActivity"
    /\ IF "activities" \in InsertPolicies
       THEN /\ db' = [db EXCEPT !.activities =
                        @ \cup {[id |-> NextActivityId(db),
                                 cycle_id |-> form.submitted.cycle]}]
            /\ form' = [form EXCEPT !.pc = "fmParticipations",
                                    !.submitted.activity = NextActivityId(db)]
       ELSE /\ db' = db
            /\ form' = FormKept
    /\ FormFrame

\* the participations of the submitted attendees, inserted in one statement
FormParticipationsInserted ==
    /\ form.pc = "fmParticipations"
    /\ LET sub == form.submitted
           participations ==
               {Participation(sub.activity, p, p = sub.topPerformer,
                              p = sub.doublePointsPlayer,
                              calculatePlayerPoints(p, sub.topPerformer,
                                                    sub.doublePointsPlayer))
                : p \in sub.attendees}
       IN  IF InsertAllAccepted(db, "activity_participations", participations)
           THEN /\ db' = [db EXCEPT !.activity_participations = @ \cup participations]
                /\ form' = FormReset
           ELSE /\ db' = db
                /\ form' = FormKept
    /\ FormFrame

InitForm ==
    /\ db \in {[StartDb(n, {}) EXCEPT !.activity_participations =
                                           {Participation(1, 1, FALSE, TRUE, 20)}] :
                 n \in 1..NumPlayers}
    /\ configured \in BOOLEAN
    /\ entries = <<>>
    /\ isLoading = TRUE
    /\ error = "null"
    /\ inflight = 0
    /\ hookPc = "mount"
    /\ results = <<>>
    /\ selected = <<>>
    /\ scoring = IdleScoring
    /\ streaks = <<>>
    /\ sess = IdleSessions
    /\ champ = IdleChamp
    /\ clock = NoClock
    /\ auth = IdleAuth
    /\ form = IdleForm

NextForm ==
    \/ SelectActivity
    \/ ToggleAttendee
    \/ ToggleTopPerformer
    \/ ToggleDoublePoints
    \/ FormSubmit
    \/ FormGotCycle
    \/ FormGotExistingDouble
    \/ FormActivityInserted
    \/ FormParticipationsInserted

SpecForm == InitForm /\ [][NextForm]_vars

(***************************************************************************)
(* Claims about the view and the hook.                                     *)
(***************************************************************************)
EightSubtotals(e) ==
    e.attendance_points + e.activity_points + e.course_points + e.book_points
    + e.blog_points + e.presentation_points + e.idea_points + e.penalty_points

SelectedRows == IF selected = <<>> THEN {} ELSE selected[1]

\* C1 as stated: every row of the view has total_points equal to the sum of the
\* eight subtotals attendance, activity, course, book, blog, presentation, idea
\* and penalty.
C1_TotalIsSumOfEight ==
    \A e \in SelectedRows : e.total_points = EightSubtotals(e)

\* C1 amended: every row of the view has total_points equal to the sum of its
\* nine subtotals, the eight named ones and top_performer_points, and the
\* penalty subtotal enters as a value that is never positive.
C1_TotalIsSumOfNine ==
    \A e \in SelectedRows :
        /\ e.total_points = EightSubtotals(e) + e.top_performer_points
        /\ e.penalty_points <= 0
        /\ e.penalty_points = PointsOf(RowsOf(db.penalties, e.player_id))

C1_Witness ==
    \E e \in SelectedRows :
        /\ e.penalty_points < 0
        /\ e.top_performer_points > 0
        /\ e.total_points = e.penalty_points + e.top_performer_points

FetchedEntries ==
    /\ Len(results) >= 1
    /\ entries = results[Len(results)]

\* C6: the entries of useLeaderboard are in non-increasing order of
\* total_points and the entry at 1-based position i has rank i.
C6_SortedAndRankedByPosition ==
    /\ \A i \in 1..(Len(entries) - 1) :
          entries[i].total_points >= entries[i + 1].total_points
    /\ \A i \in 1..Len(entries) : entries[i].rank = i

C6_Witness ==
    /\ FetchedEntries
    /\ Len(entries) >= 2
    /\ entries[1].total_points > entries[2].total_points
    /\ entries[2].rank = 2

TotalsOf(es) == {es[i].total_points : i \in 1..Len(es)}

DenseRank(es, e) == 1 + Cardinality({t \in TotalsOf(es) : t > e.total_points})

\* C7 as stated: an entry's rank is the dense rank by total_points, so entries
\* of equal total have the same rank.
C7_DenseRank ==
    \A i \in 1..Len(entries) : entries[i].rank = DenseRank(entries, entries[i])

\* C7 amended: an entry's rank is its 1-based position in the order by
\* total_points descending: ranks are pairwise different (also between entries
\* of equal total), a rank is more than the number of entries with a greater
\* total and at most the number of entries with a total at least as great.
C7_RankIsPositionInOrder ==
    /\ \A i, j \in 1..Len(entries) : i # j => entries[i].rank # entries[j].rank
    /\ \A i \in 1..Len(entries) :
          LET greater == {j \in 1..Len(entries) :
                            entries[j].total_points > entries[i].total_points}
              atLeast == {j \in 1..Len(entries) :
                            entries[j].total_points >= entries[i].total_points}
          IN /\ entries[i].rank > Cardinality(greater)
             /\ entries[i].rank <= Cardinality(atLeast)

C7_Witness ==
    /\ FetchedEntries
    /\ Len(entries) >= 2
    /\ entries[1].total_points = entries[2].total_points
    /\ entries[1].rank = 1
    /\ entries[2].rank = 2

\* C8: is_last_place is false for every entry when there are 0 or 1 entries,
\* and true for exactly one entry, the last one, when there are 2 or more.
C8_LastPlace ==
    LET last == {i \in 1..Len(entries) : entries[i].is_last_place}
    IN IF Len(entries) <= 1 THEN last = {} ELSE last = {Len(entries)}

C8_Witness ==
    /\ FetchedEntries
    /\ Len(entries) >= 2
    /\ entries[Len(entries)].is_last_place
    /\ ~entries[1].is_last_place

C8_WitnessSinglePlayer ==
    /\ FetchedEntries
    /\ Len(entries) = 1
    /\ ~entries[1].is_last_place

\* C9: two fetches of the leaderboard over the same stored records give the
\* same entries in the same order with the same rank and is_last_place.
C9_SameOutputTwice ==
    Len(results) = 2 => results[1] = results[2]

\* the longest stretch of the sorted dates in which every date is exactly 7
\* days after the one before it
LongestWeeklyRun(dates) ==
    LET sorted == SortDates(dates)
        weekly(i, j) == \A k \in (i + 1)..j : sorted[k] - sorted[k - 1] = 7
        lengths == {j - i + 1 : i \in 1..Len(sorted), j \in 1..Len(sorted)}
    IN CHOOSE n \in lengths :
          /\ \E i \in 1..Len(sorted) :
                i + n - 1 <= Len(sorted) /\ weekly(i, i + n - 1)
          /\ \A i, j \in 1..Len(sorted) :
                (i <= j /\ weekly(i, j)) => j - i + 1 <= n

StreaksComputed ==
    /\ scoring.pc = "done"
    /\ scoring.error = "null"
    /\ configured

ActiveAttendance == AttendanceOfCycle(db, db.active_cycle)

\* C10: once calculateStreaks has computed, the result lists exactly the
\* players with attendance in the active cycle whose longest run of check-ins
\* 7 days apart is at least 2, each once, with consecutiveWeeks equal to that
\* longest run and bonusPoints = floor(run / 2).
C10_StreaksAreLongestWeeklyRuns ==
    StreaksComputed =>
        LET attending == {r.player_id : r \in ActiveAttendance}
            run(p) == LongestWeeklyRun(DatesOf(ActiveAttendance, p))
        IN /\ {streaks[i].playerId : i \in 1..Len(streaks)}
                = {p \in attending : run(p) \div 2 >= 1}
           /\ \A i, j \in 1..Len(streaks) :
                 i # j => streaks[i].playerId # streaks[j].playerId
           /\ \A i \in 1..Len(streaks) :
                 /\ streaks[i].consecutiveWeeks = run(streaks[i].playerId)
                 /\ streaks[i].bonusPoints = run(streaks[i].playerId) \div 2

\* a player whose run restarts (day 14, then 17 and 24) is listed with the run
\* of 2, and a player with attendance but no weekly pair is left out
C10_Witness ==
    /\ StreaksComputed
    /\ \E p \in db.players :
          /\ DatesOf(ActiveAttendance, p) = {14, 17, 24}
          /\ \E i \in 1..Len(streaks) :
                /\ streaks[i].playerId = p
                /\ streaks[i].consecutiveWeeks = 2
                /\ streaks[i].bonusPoints = 1
    /\ \E q \in db.players :
          /\ DatesOf(ActiveAttendance, q) # {}
          /\ \A i \in 1..Len(streaks) : streaks[i].playerId # q

(***************************************************************************)
(* Claims about double points.                                             *)
(***************************************************************************)
DoubledIn(p, c) ==
    {r \in ExistingDouble(db, p) : CycleOfActivity(db, r.activity_id) = c}

\* C2: each player has at most one activity participation with
\* double_points_used = true within a cycle, whatever the interleaving of
\* activity submissions and applyDoublePoints calls.
C2_AtMostOneDoublePerCycle ==
    \A p \in PlayerIds, c \in CycleIds : Cardinality(DoubledIn(p, c)) <= 1

\* C3: a doubled participation is refused only when the player already has a
\* doubled participation in the active cycle the handler read.
C3_RefusedOnlyForActiveCycle ==
    \A s \in SessionIds :
        sess[s].outcome = "refused" => DoubledIn(sess[s].player, sess[s].cycle) # {}

(***************************************************************************)
(* Claims about check-ins and blogs.                                       *)
(***************************************************************************)
AttendanceAt(p, date) ==
    {r \in db.attendance : r.player_id = p /\ r.check_in_date = date}

\* C4: after any interleaving of self check-ins and admin bulk attendance
\* entry there is at most one attendance record per (player, check-in date).
C4_OneAttendancePerPlayerDate ==
    \A p \in PlayerIds, date \in CheckInDays : Cardinality(AttendanceAt(p, date)) <= 1

\* a check-in was rejected as a duplicate of the record stored for that player
\* and date, and an admin entry stored several players at once
C4_Witness ==
    /\ \E s \in SessionIds :
          /\ sess[s].outcome = "duplicate"
          /\ AttendanceAt(sess[s].player, sess[s].target) # {}
    /\ \E date \in CheckInDays, p, q \in PlayerIds :
          /\ p # q
          /\ AttendanceAt(p, date) # {}
          /\ AttendanceAt(q, date) # {}

\* C5: a player's first blog carries 30 points and every later blog of that
\* player 20, so a player with blogs has exactly one blog of 30 points and
\* the others carry 20.
C5_OneFirstBlogPerPlayer ==
    \A p \in PlayerIds :
        RowsOf(db.blogs, p) # {} =>
            /\ Cardinality({r \in RowsOf(db.blogs, p) : r.points = FIRST_BLOG}) = 1
            /\ \A r \in RowsOf(db.blogs, p) :
                  r.points \in {FIRST_BLOG, SUBSEQUENT_BLOG}

(***************************************************************************)
(* Claims about calculateAttendanceChampion.                               *)
(***************************************************************************)
ChampionComputed ==
    /\ champ.pc = "done"
    /\ configured

ActiveCycleRows == {r \in db.attendance : r.cycle_id = db.active_cycle}

CountIn(rows, p) == Cardinality({r \in rows : r.player_id = p})

MaxCountIn(rows) ==
    CHOOSE n \in {CountIn(rows, p) : p \in PlayerIds} :
        \A p \in PlayerIds : CountIn(rows, p) <= n

\* C11: with attendance in the active cycle, the champion is the player of the
\* maximum attendance count in that cycle, attendanceCount is that count and
\* bonusPoints is 10; among players sharing the maximum the first one in the
\* order the players were encountered wins.
C11_ChampionIsFirstArgMax ==
    (ChampionComputed /\ ActiveCycleRows # {}) =>
        LET pcs == champ.playerCounts
            top == MaxCountIn(ActiveCycleRows)
        IN  /\ {pcs[i].playerId : i \in 1..Len(pcs)}
                  = {r.player_id : r \in ActiveCycleRows}
            /\ \A i \in 1..Len(pcs) :
                  pcs[i].count = CountIn(ActiveCycleRows, pcs[i].playerId)
            /\ champ.result.attendanceCount = top
            /\ champ.result.bonusPoints = 10
            /\ \E i \in 1..Len(pcs) :
                  /\ pcs[i].playerId = champ.result.playerId
                  /\ pcs[i].count = top
                  /\ \A j \in 1..(i - 1) : pcs[j].count < top

\* two players share the maximum of two check-ins and the one encountered
\* first, player 2, is the champion
C11_Witness ==
    /\ ChampionComputed
    /\ CountIn(ActiveCycleRows, 1) = 2
    /\ CountIn(ActiveCycleRows, 2) = 2
    /\ champ.playerCounts[1].playerId = 2
    /\ champ.result = [playerId |-> 2, attendanceCount |-> 2, bonusPoints |-> 10]

\* C12: calculateAttendanceChampion returns null when the active cycle has no
\* attendance records.
C12_NoAttendanceNoChampion ==
    (ChampionComputed /\ ActiveCycleRows = {}) => champ.result = NoChampion

\* only an earlier cycle has check-ins, and the result is null
C12_Witness ==
    /\ ChampionComputed
    /\ db.active_cycle # NoCycle
    /\ ActiveCycleRows = {}
    /\ db.attendance # {}
    /\ champ.result = NoChampion

\* C13: with no active cycle both calculators end in their catch block and
\* return an empty list and null.
C13_NoCycleEmptyResults ==
    (configured /\ db.active_cycle = NoCycle) =>
        /\ scoring.pc \in {"idle", "awaitCycle", "done"}
        /\ champ.pc \in {"idle", "awaitCycle", "failed"}
        /\ scoring.pc = "done" => streaks = <<>>
        /\ champ.pc = "failed" => champ.result = NoChampion

\* both calculators have returned without a cycle, over a store with check-ins
C13_Witness ==
    /\ configured
    /\ db.active_cycle = NoCycle
    /\ db.attendance # {}
    /\ scoring.pc = "done"
    /\ champ.pc = "failed"
    /\ streaks = <<>>
    /\ champ.result = NoChampion
    /\ scoring.error = "No active cycle"

(***************************************************************************)
(* Claims about record points.                                             *)
(***************************************************************************)
\* floor(hours * percent / 100 * 4): the largest n with n * 100 <= hours * percent * 4
FloorOfCourseFormula(hours, percent) ==
    CHOOSE n \in 0..(4 * hours) :
        /\ n * 100 <= hours * percent * 4
        /\ (n + 1) * 100 > hours * percent * 4

PointsPer10Pages(title) ==
    (CHOOSE b \in BooksLibrary : b.name = title).points_per_10_pages

\* C15: every book record's points are floor(pagesRead / 10) times the
\* points_per_10_pages of its catalog entry.
C15_BookPointsUseCatalog ==
    \A r \in db.books :
        BookPoints(r.pages_read) = (r.pages_read \div 10) * PointsPer10Pages(r.title)

PresentationTable(is_solo, order) ==
    IF is_solo
    THEN (IF order = 1 THEN FIRST_SOLO_PRESENTATION ELSE SECOND_SOLO_PRESENTATION)
    ELSE (IF order = 1 THEN FIRST_PAIR_PRESENTATION ELSE SECOND_PAIR_PRESENTATION)

\* C16: every presentation record's points are the table's value for its
\* (is_solo, presentation_order): 30, 20, 20, 15.
C16_PresentationPointsTable ==
    \A r \in db.presentations :
        r.points = PresentationTable(r.is_solo, r.presentation_order)

ParticipationFormula(is_top_performer, double_points_used) ==
    (10 + (IF is_top_performer THEN 20 ELSE 0)) * (IF double_points_used THEN 2 ELSE 1)

\* the row applyDoublePoints' pending UPDATE ... SET points, double_points_used
\* writes over r
DoubledBy(s, r) ==
    [r EXCEPT !.points = sess[s].points * 2, !.double_points_used = TRUE]

AttendanceFormula(p) ==
    LET rows == RowsOf(db.attendance, p)
        early == Cardinality({r \in rows : r.is_early_bird})
        plain == Cardinality({r \in rows : ~r.is_early_bird})
    IN  (IF p \in db.far_away THEN 2 ELSE 1) * (2 * early + plain)

\* C18: a player's attendance subtotal in the view is the sum over the player's
\* attendance records of (1 + (isEarlyBird ? 1 : 0)) * (remote ? 2 : 1), remote
\* being the player's far_away flag.
C18_AttendanceSubtotal ==
    \A e \in SelectedRows : e.attendance_points = AttendanceFormula(e.player_id)

\* a remote player with an early and a plain check-in is selected with 6
C18_Witness ==
    \E e \in SelectedRows :
        /\ e.player_id \in db.far_away
        /\ \E a, b \in RowsOf(db.attendance, e.player_id) :
              a.is_early_bird /\ ~b.is_early_bird
        /\ e.attendance_points = 6

\* the store without its unverified course, book and idea records
VerifiedOnly(d) ==
    [d EXCEPT !.courses = {r \in @ : r.verified},
              !.books = {r \in @ : r.verified},
              !.ideas = {r \in @ : r.verified}]

VerifiedRows(tbl, p) == {r \in RowsOf(tbl, p) : r.verified}

\* C19: a course, book or idea record counts in its player's subtotal and total
\* only if its verified flag is true: the view's rows are those of the store
\* without the unverified records, and the three subtotals are the sums over
\* the verified records.
C19_OnlyVerifiedCount ==
    selected # <<>> =>
        /\ selected[1] = LeaderboardView(VerifiedOnly(db))
        /\ \A e \in SelectedRows :
              LET courses == VerifiedRows(db.courses, e.player_id)
                  books == VerifiedRows(db.books, e.player_id)
              IN  /\ e.course_points =
                        Sum([r \in courses |->
                               CoursePoints(r.total_hours, r.completion_percent)], courses)
                  /\ e.book_points = Sum([r \in books |-> BookPoints(r.pages_read)], books)
                  /\ e.idea_points = PointsOf(VerifiedRows(db.ideas, e.player_id))

\* a player with a verified and an unverified record of one kind is selected
\* with the verified record's points only
C19_Witness ==
    \E e \in SelectedRows :
        \/ /\ \E a, b \in RowsOf(db.courses, e.player_id) : a.verified /\ ~b.verified
           /\ e.course_points = 8 /\ e.total_points = 8
        \/ /\ \E a, b \in RowsOf(db.books, e.player_id) : a.verified /\ ~b.verified
           /\ e.book_points = 2 /\ e.total_points = 2
        \/ /\ \E a, b \in RowsOf(db.ideas, e.player_id) : a.verified /\ ~b.verified
           /\ e.idea_points = 5 /\ e.total_points = 5

\* the store without the records of any cycle but the active one; a
\* participation belongs to the cycle of its activity
ActiveCycleOnly(d) ==
    [t \in DOMAIN d |->
       IF t = "activity_participations"
         THEN {r \in d[t] : CycleOfActivity(d, r.activity_id) = d.active_cycle}
       ELSE IF t \in PointTables
         THEN {r \in d[t] : r.cycle_id = d.active_cycle}
       ELSE d[t]]

\* C20: a player's subtotals and total in the view count only the records of
\* the active cycle: the view's rows are those of the store without the records
\* of every other cycle.
C20_OnlyActiveCycleCounts ==
    selected # <<>> => selected[1] = LeaderboardView(ActiveCycleOnly(db))

\* C21: after any sequence of blog adds and edits by any players, no two blog
\* records have the same url.
C21_BlogUrlsDistinct ==
    \A a, b \in db.blogs : a.id # b.id => a.url # b.url

\* two players hold a blog each, and an edit that asks for the other blog's
\* url has been answered
C21_Witness ==
    /\ \E a, b \in db.blogs : a.player_id # b.player_id
    /\ \E s \in SessionIds : sess[s].outcome = "failed"

\* C22: every penalty record has points <= 0, whatever number the admin typed
\* into the penalty form.
C22_PenaltyPointsNotPositive ==
    \A r \in db.penalties : r.points <= 0

\* the typed 3 and the typed -2 are both stored, as -3 and -2
C22_Witness ==
    /\ \E r \in db.penalties : r.points = -3
    /\ \E r \in db.penalties : r.points = -2

\* the record of r's co-presenter in the same event
PartnerRecords(r) ==
    {q \in db.presentations :
        /\ q.player_id = r.second_presenter_id
        /\ q.second_presenter_id = r.player_id
        /\ q.presentation_order # r.presentation_order
        /\ ~q.is_solo}

\* C23: once no two-presenter submission is between its two inserts, every
\* record of a two-presenter event has the co-presenter's record beside it,
\* the two with presentation_order 1 and 2 and points 20 and 15.
C23_PairHasBothRecords ==
    (\A s \in SessionIds : sess[s].pc # "prSecond") =>
        \A r \in db.presentations :
            r.second_presenter_id # NoPlayer =>
                /\ PartnerRecords(r) # {}
                /\ r.presentation_order \in {1, 2}
                /\ r.points = IF r.presentation_order = 1
                              THEN FIRST_PAIR_PRESENTATION
                              ELSE SECOND_PAIR_PRESENTATION

\* no fetch has settled yet: no result was remembered and no error is shown
NoFetchSettled == results = <<>> /\ error = "null"

\* C24: useLeaderboard reports isLoading = true from creation until the first
\* fetch settles, and whenever isLoading is true (a fetch, initial or refetch,
\* is wanted or under way) it eventually becomes false, whether the fetch
\* succeeds or fails.
C24_LoadingUntilSettled ==
    /\ [](hookPc = "mount" => isLoading)
    /\ []((configured /\ NoFetchSettled) => isLoading)
    /\ (isLoading ~> ~isLoading)

\* a fetch has succeeded, a later one has failed, and the hook is not loading
C24_Witness ==
    /\ configured
    /\ results # <<>>
    /\ error # "null"
    /\ ~isLoading

\* the most recent Wednesday on or before the local day: the greatest
\* multiple of 7 that is at most the day
MostRecentWednesday(day) == day - (day % 7)

\* C25: every attendance record created through self check-in or the admin
\* attendance form has check_in_date equal to the calendar date of the most
\* recent Wednesday on or before the current local day, for every weekday
\* and time of day.
C25_CheckInDateIsLastWednesday ==
    \A r \in db.attendance : r.check_in_date = MostRecentWednesday(clock.day)

\* C26: when the store rejects a blog insert or update (for example because
\* the url already exists for another player), AddBlogModal and the user's
\* EditBlogModal show an error and do not report success: the step in which
\* the rejected statement answers does not end with onSuccess and onClose.
C26_RejectedBlogNotReportedOk ==
    [][\A s \in SessionIds :
          /\ (sess[s].pc = "abInsert" /\ sess'[s].pc = "idle"
              /\ ~InsertAllAccepted(db, "blogs", {BlogRecord(s)}))
                => sess'[s].outcome # "ok"
          /\ (sess[s].pc = "ebUpdate" /\ sess'[s].pc = "idle"
              /\ BlogUpdateRejected(db, sess[s].target, sess[s].points))
                => sess'[s].outcome # "ok"]_vars

\* C27: when Supabase is configured, every entry exposed by useLeaderboard is
\* a row the store's leaderboard view returned to a fetch; after a failed
\* fetch the hook exposes no entry the store did not return.
C27_EntriesCameFromTheView ==
    configured =>
        \A i \in 1..Len(entries) :
            \E k \in 1..Len(results) :
                \E j \in 1..Len(results[k]) : entries[i] = results[k][j]

\* bonusPoints of calculateStreaks for player p over the store d
BonusOf(d, p) ==
    StreakBonus(MaxConsecutive(DatesOf(AttendanceOfCycle(d, d.active_cycle), p)))

\* C28: adding an attendance record for a player in the active cycle never
\* decreases that player's streak bonusPoints as calculateStreaks computes
\* them.
C28_AttendanceNeverLowersBonus ==
    [][\A p \in db.players :
          (/\ db.attendance \subseteq db'.attendance
           /\ \E r \in db'.attendance \ db.attendance :
                 r.player_id = p /\ r.cycle_id = db.active_cycle)
            => BonusOf(db', p) >= BonusOf(db, p)]_vars

\* C29: whenever useAuth reports isAuthenticated = true, playerData is the
\* player row of the currently signed-in user, so isAdmin is true only if
\* that user's own row has is_admin = true, under any interleaving of sign-in,
\* sign-out, auth-state-change callbacks and in-flight player-data fetches.
C29_PlayerDataIsTheUsersRow ==
    isAuthenticated =>
        /\ auth.playerData = auth.user
        /\ isAdmin => auth.user \in Admins

TopPerformersOf(a) ==
    {r \in db.activity_participations : r.activity_id = a /\ r.is_top_performer}

DoubledOf(a) ==
    {r \in db.activity_participations : r.activity_id = a /\ r.double_points_used}

\* C30: after any sequence of attendee, top-performer and double-points
\* toggles in ActivityForm, topPerformer and doublePointsPlayer are each
\* either empty or a member of attendees, and a submitted activity contains
\* at most one top-performer participation and at most one doubled one.
C30_TogglesStayWithinAttendees ==
    /\ form.topPerformer \in form.attendees \cup {NoPlayer}
    /\ form.doublePointsPlayer \in form.attendees \cup {NoPlayer}
    /\ form.submitted.topPerformer \in form.submitted.attendees \cup {NoPlayer}
    /\ form.submitted.doublePointsPlayer \in form.submitted.attendees \cup {NoPlayer}
    /\ \A a \in db.activities :
          /\ Cardinality(TopPerformersOf(a.id)) <= 1
          /\ Cardinality(DoubledOf(a.id)) <= 1

\* an activity was submitted with a top performer and a doubled player among
\* several attendees, and the form, reset by it, is in use again with both set
C30_Witness ==
    /\ \E a \in db.activities :
          /\ Cardinality(TopPerformersOf(a.id)) = 1
          /\ Cardinality(DoubledOf(a.id)) = 1
          /\ Cardinality({r \in db.activity_participations : r.activity_id = a.id}) >= 2
    /\ form.pc = "edit"
    /\ form.topPerformer # NoPlayer
    /\ form.doublePointsPlayer # NoPlayer
    /\ Cardinality(form.attendees) = 1

====
